---- MODULE Spec2Model ----
(***************************************************************************)
(* Work queue (ygm::container::work_queue) and its queue-order policies,   *)
(* driven through the communicator's barrier and pre-barrier callbacks.    *)
(*                                                                         *)
(* One process per rank.  A rank is either in user code ("user"), inside   *)
(* comm::barrier ("barrier"), inside a registered processing callback      *)
(* ("drain": the loop of local_process_all, "work": the body of the work   *)
(* function), or behind the barrier of a destructor ("check").             *)
(*                                                                         *)
(* Alias table (ygm::random::alias_table): the weight balancer, the local  *)
(* construction of the table (Vose) and the two-level sampler, on a        *)
(* communicator of its own.  Weights are exact: rationals carried as       *)
(* integers over a common denominator.                                     *)
(***************************************************************************)
EXTENDS Integers, Sequences, FiniteSets, TLC

\* ------------------------------------------------------------- bounds
\* Budget of work items created in one behaviour (inserted or sent).
MaxInserts == 2
\* Largest item value a caller inserts under SpecOrder.
MaxItem == 2
\* Budget of work items created in one behaviour of SpecOrder.
MaxBatch == 3
\* A move is not attempted while this many callbacks are pending on the rank.
MaxPending == 2

\* Budget of (id, weight) items in the input of one alias table, over all ranks.
MaxAliasItems == 2
\* The same budget where the constructor is taken as one collective step.
MaxBuildItems == 3
\* Budget of weight in the input of one alias table, over all ranks.
MaxWeight == 4
\* Budget of async_sample calls in one behaviour.
MaxSamples == 2
\* The cutoff of the recursion test (64 in the test).
Cutoff == 2

\* The ranks of the communicator and the work-queue objects a rank may hold.
Ranks == {0, 1}
WQ == {1, 2}
\* The ranks whose user code moves, clears, constructs and destroys queues; on
\* the other ranks user code inserts and synchronises only.
Drivers == {0}
Items == 0..MaxItem
\* Cells of the array of the traversal test.
ArraySize == 4
Cells == 0..ArraySize - 1
Policies == {"fifo", "lifo", "priority_less", "priority_greater"}
\* The communicator the alias table is built on: comm.size() and its ranks.
NumRanks == 3
ARanks == 0..NumRanks - 1
\* Item ids of the input; Item() is the value-initialised id of a b slot.
Ids == {1, 2}
DefaultItem == 0

VARIABLES
  policy,      \* QueuePolicy template argument of every work queue of the run
  wq,          \* wq[r][q]: alive, m_local_queue, m_callback_registered, m_work_lambda
  cbs,         \* cbs[r]: the communicator's pending pre-barrier callbacks (captured this)
  chan,        \* chan[s][d]: async RPCs sent by s, not yet executed on d, in send order
  pc,          \* pc[r]: where rank r is
  cur,         \* cur[r]: the queue whose callback runs on r and the item in the work function
  dtor,        \* dtor[r]: the queue whose destructor runs on r (0: none) and its size on entry
  arr,         \* arr[i]: cell i of the distributed array the traversal test visits
  clock,       \* clock[r]: number of local_insert calls on rank r so far (item stamps)
  settled,     \* settled[r]: value of clock[r] when the last barrier returned
  mark,        \* mark[r]: items queued on r and length of procLog[r] when r last entered a barrier
  procLog,     \* procLog[r]: the work-function invocations on rank r, in order
  discarded,   \* discarded[r]: items thrown away unprocessed (local_clear, move assignment)
  input,                \* input[r]: the (id, weight) items rank r passed to the constructor
  m_local_items,        \* m_local_items[r], weights in units of 1/NumRanks
  new_local_items,      \* new_local_items[r]: the collector of balance_weight
  post,                 \* post[r]: m_local_items[r] as balance_weight left it
  m_local_alias_table,  \* m_local_alias_table[r]: buckets (p, a, b), p in units of 1/(NumRanks * n_r)
  m_avg_weight,         \* m_avg_weight[r], in the units of p
  bal,                  \* bal[r]: the locals target_weight, dest_rank, curr_weight of balance_weight
  apc,                  \* apc[r]: where rank r is in the constructor, or "ready" after it
  achan,                \* achan[s][d]: async RPCs of the alias table sent by s, not yet executed on d
  calls,                \* calls[r]: async_sample calls made by rank r
  visits                \* visits[r]: ids the visitor was invoked with on rank r, in order

wqVars == <<policy, wq, cbs, chan, pc, cur, dtor, arr, clock, settled, mark, procLog, discarded>>

aliasVars == <<input, m_local_items, new_local_items, post, m_local_alias_table, m_avg_weight,
               bal, apc, achan, calls, visits>>

vars == <<policy, wq, cbs, chan, pc, cur, dtor, arr, clock, settled, mark, procLog, discarded,
          input, m_local_items, new_local_items, post, m_local_alias_table, m_avg_weight,
          bal, apc, achan, calls, visits>>

\* ------------------------------------------------------------- helpers
NoItem == [v |-> -1, t |-> 0, org |-> "none", into |-> 0]

RemoveAt(s, i) == SubSeq(s, 1, i - 1) \o SubSeq(s, i + 1, Len(s))

Range(s) == {s[i] : i \in 1..Len(s)}

\* f[lo] + ... + f[hi]
RECURSIVE SumOver(_, _, _)
SumOver(f, lo, hi) == IF hi < lo THEN 0 ELSE f[hi] + SumOver(f, lo, hi - 1)

LastRank == Cardinality(Ranks) - 1

LastWQ == Cardinality(WQ)

\* RPCs sent by rank s and not yet executed.
InFlight(s) == SumOver([d \in Ranks |-> Len(chan[s][d])], 0, LastRank)

\* Items created so far: inserted, or travelling in an RPC.
Issued == SumOver(clock, 0, LastRank) + SumOver([s \in Ranks |-> InFlight(s)], 0, LastRank)

\* ------------------------------------------------------------- queue policies
\* The comparator of the two priority policies under test: std::less and
\* std::greater.  Comp(P, a, b) is Comp()(a, b).
Comp(P, a, b) == IF P = "priority_less" THEN a < b ELSE a > b

\* QueuePolicy::push.  All three containers append to the underlying
\* sequence; what differs is which element top/pop address.
push(P, qu, item) == Append(qu, item)

\* Faulty variants of top: every policy reading the newest element, and every
\* policy reading the oldest one.
top_index_back(P, qu) == {Len(qu)}

top_index_front(P, qu) == {1}

\* The positions QueuePolicy::top may return and QueuePolicy::pop then removes:
\* std::queue::front, std::stack::top, and for std::priority_queue an element
\* that no other element exceeds under Comp (which one among equals is the
\* heap's choice).
top_index(P, qu) ==
  CASE P = "fifo" -> {1}
    [] P = "lifo" -> {Len(qu)}
    [] OTHER -> {i \in 1..Len(qu) : \A j \in 1..Len(qu) : ~Comp(P, qu[i].v, qu[j].v)}

top(P, qu, i) == qu[i]

\* Faulty variant of pop: the element stays in the container.
pop_keep(P, qu, i) == qu

pop(P, qu, i) == RemoveAt(qu, i)

empty(qu) == Len(qu) = 0

size(qu) == Len(qu)

\* ------------------------------------------------------------- work_queue
\* The part of the state the work queue's methods read and write.
Cur == [wq |-> wq, cbs |-> cbs, clock |-> clock]

Commit(S) == wq' = S.wq /\ cbs' = S.cbs /\ clock' = S.clock

local_has_work(S, r, q) == ~empty(S.wq[r][q].m_local_queue)

local_size(S, r, q) == size(S.wq[r][q].m_local_queue)

\* register_processing_callback: hand the communicator a callback that
\* captures this queue, then set the flag.
register_processing_callback(S, r, q) ==
  [S EXCEPT !.cbs[r] = Append(@, q),
            !.wq[r][q].m_callback_registered = TRUE]

\* Faulty variant of local_insert: it registers a callback whatever the flag.
local_insert_always(S, r, q, v, org) ==
  LET item == [v |-> v, t |-> S.clock[r] + 1, org |-> org, into |-> q]
      S1 == [S EXCEPT !.wq[r][q].m_local_queue = push(policy, @, item),
                      !.clock[r] = @ + 1]
  IN register_processing_callback(S1, r, q)

\* local_insert(item): push, then register once per batch.
local_insert(S, r, q, v, org) ==
  LET item == [v |-> v, t |-> S.clock[r] + 1, org |-> org, into |-> q]
      S1 == [S EXCEPT !.wq[r][q].m_local_queue = push(policy, @, item),
                      !.clock[r] = @ + 1]
  IN IF ~S1.wq[r][q].m_callback_registered
       THEN register_processing_callback(S1, r, q)
       ELSE S1

\* Faulty variant of local_clear: the container is left as it was.
local_clear_noop(S, r, q) == S

\* local_clear(): m_local_queue = queue_type{}.
local_clear(S, r, q) == [S EXCEPT !.wq[r][q].m_local_queue = <<>>]

\* work_queue(comm, work_fn): empty queue, flag false.
construct(S, r, q, fn) ==
  [S EXCEPT !.wq[r][q] = [alive |-> TRUE, gone |-> FALSE, m_local_queue |-> <<>>,
                          m_callback_registered |-> FALSE, m_work_lambda |-> fn]]

\* work_queue(self_type&& other): takes other's container and work function;
\* the moved-from container is left empty.
move_construct(S, r, q, other) ==
  LET S1 == [S EXCEPT !.wq[r][q] = [alive |-> TRUE, gone |-> FALSE,
                                    m_local_queue |-> S.wq[r][other].m_local_queue,
                                    m_callback_registered |-> FALSE,
                                    m_work_lambda |-> S.wq[r][other].m_work_lambda],
                      !.wq[r][other].m_local_queue = <<>>,
                      !.wq[r][other].m_callback_registered = FALSE]
  IN IF local_has_work(S1, r, q) THEN register_processing_callback(S1, r, q) ELSE S1

\* Faulty variant of operator=: the items taken are put behind those the
\* destination holds.
move_assign_merge(S, r, q, other) ==
  IF q = other THEN S
  ELSE LET S1 == [S EXCEPT !.wq[r][q].m_local_queue = @ \o S.wq[r][other].m_local_queue,
                           !.wq[r][other].m_local_queue = <<>>,
                           !.wq[r][q].m_callback_registered = FALSE,
                           !.wq[r][other].m_callback_registered = FALSE]
       IN IF local_has_work(S1, r, q) THEN register_processing_callback(S1, r, q) ELSE S1

\* Faulty variant of operator=: no callback is registered for the items taken.
move_assign_unarmed(S, r, q, other) ==
  IF q = other THEN S
  ELSE [S EXCEPT !.wq[r][q].m_local_queue = S.wq[r][other].m_local_queue,
                 !.wq[r][other].m_local_queue = <<>>,
                 !.wq[r][q].m_callback_registered = FALSE,
                 !.wq[r][other].m_callback_registered = FALSE]

\* operator=(self_type&& other): takes other's container only.
move_assign(S, r, q, other) ==
  IF q = other THEN S
  ELSE LET S1 == [S EXCEPT !.wq[r][q].m_local_queue = S.wq[r][other].m_local_queue,
                           !.wq[r][other].m_local_queue = <<>>,
                           !.wq[r][q].m_callback_registered = FALSE,
                           !.wq[r][other].m_callback_registered = FALSE]
       IN IF local_has_work(S1, r, q) THEN register_processing_callback(S1, r, q) ELSE S1

\* ------------------------------------------------------------- initial state
Unbuilt == [alive |-> FALSE, gone |-> FALSE, m_local_queue |-> <<>>,
            m_callback_registered |-> FALSE, m_work_lambda |-> 0]

\* A destroyed object; its storage is not reused for another queue.
Destroyed == [Unbuilt EXCEPT !.gone = TRUE]

Built(fn) == [alive |-> TRUE, gone |-> FALSE, m_local_queue |-> <<>>,
              m_callback_registered |-> FALSE, m_work_lambda |-> fn]

\* No alias table exists.
AliasFresh ==
  /\ m_local_items = [r \in ARanks |-> <<>>]
  /\ new_local_items = [r \in ARanks |-> <<>>]
  /\ post = [r \in ARanks |-> <<>>]
  /\ m_local_alias_table = [r \in ARanks |-> <<>>]
  /\ m_avg_weight = [r \in ARanks |-> 0]
  /\ bal = [r \in ARanks |-> [target_weight |-> 0, dest_rank |-> 0, curr_weight |-> 0]]
  /\ apc = [r \in ARanks |-> "none"]
  /\ achan = [s \in ARanks |-> [d \in ARanks |-> <<>>]]
  /\ calls = [r \in ARanks |-> 0]
  /\ visits = [r \in ARanks |-> <<>>]

AliasIdle == input = [r \in ARanks |-> <<>>] /\ AliasFresh

\* Every rank has constructed queue 1 (with work function 1); queue 2 is not
\* constructed yet.
WQIdle(P) ==
  /\ policy \in P
  /\ wq = [r \in Ranks |-> [q \in WQ |-> IF q = 1 THEN Built(1) ELSE Unbuilt]]
  /\ cbs = [r \in Ranks |-> <<>>]
  /\ chan = [s \in Ranks |-> [d \in Ranks |-> <<>>]]
  /\ pc = [r \in Ranks |-> "user"]
  /\ cur = [r \in Ranks |-> [q |-> 0, item |-> NoItem]]
  /\ dtor = [r \in Ranks |-> [q |-> 0, n |-> 0]]
  /\ arr = [i \in Cells |-> i]
  /\ clock = [r \in Ranks |-> 0]
  /\ settled = [r \in Ranks |-> 0]
  /\ mark = [r \in Ranks |-> [n |-> 0, at |-> 0, c |-> 0]]
  /\ procLog = [r \in Ranks |-> <<>>]
  /\ discarded = [r \in Ranks |-> {}]

InitWith(P) == WQIdle(P) /\ AliasIdle

\* ------------------------------------------------------------- user code
Construct(r, q) ==
  /\ pc[r] = "user" /\ ~wq[r][q].alive /\ ~wq[r][q].gone
  /\ Commit(construct(Cur, r, q, q))
  /\ UNCHANGED <<policy, chan, pc, cur, dtor, arr, settled, mark, procLog, discarded>>

LocalInsert(r, q, v) ==
  /\ pc[r] = "user" /\ wq[r][q].alive
  /\ Commit(local_insert(Cur, r, q, v, "user"))
  /\ UNCHANGED <<policy, chan, pc, cur, dtor, arr, settled, mark, procLog, discarded>>

LocalClear(r, q) ==
  /\ pc[r] = "user" /\ wq[r][q].alive
  /\ Commit(local_clear(Cur, r, q))
  /\ discarded' = [discarded EXCEPT ![r] = @ \cup Range(wq[r][q].m_local_queue)]
  /\ UNCHANGED <<policy, chan, pc, cur, dtor, arr, settled, mark, procLog>>

MoveConstruct(r, q, other) ==
  /\ pc[r] = "user" /\ ~wq[r][q].alive /\ ~wq[r][q].gone /\ wq[r][other].alive
  /\ Commit(move_construct(Cur, r, q, other))
  /\ UNCHANGED <<policy, chan, pc, cur, dtor, arr, settled, mark, procLog, discarded>>

MoveAssign(r, q, other) ==
  /\ pc[r] = "user" /\ wq[r][q].alive /\ wq[r][other].alive
  /\ Commit(move_assign(Cur, r, q, other))
  /\ discarded' = IF q = other THEN discarded
                  ELSE [discarded EXCEPT ![r] = @ \cup Range(wq[r][q].m_local_queue)]
  /\ UNCHANGED <<policy, chan, pc, cur, dtor, arr, settled, mark, procLog>>

\* Number of items in all the queues of rank r.
Queued(W, r) == SumOver([q \in WQ |-> Len(W[r][q].m_local_queue)], 1, LastWQ)

\* Rank r enters comm::barrier(); W is the rank's queues at that moment.
EnterBarrier(r, W) ==
  /\ pc' = [pc EXCEPT ![r] = "barrier"]
  /\ mark' = [mark EXCEPT ![r] = [n |-> Queued(W, r), at |-> Len(procLog[r]), c |-> clock[r]]]

\* comm::barrier() called from user code.
BarrierEnter(r) ==
  /\ pc[r] = "user"
  /\ EnterBarrier(r, wq)
  /\ UNCHANGED <<policy, wq, cbs, chan, cur, dtor, arr, clock, settled, procLog, discarded>>

\* clear(): local_clear(), then a barrier.
Clear(r, q) ==
  /\ pc[r] = "user" /\ wq[r][q].alive
  /\ Commit(local_clear(Cur, r, q))
  /\ discarded' = [discarded EXCEPT ![r] = @ \cup Range(wq[r][q].m_local_queue)]
  /\ EnterBarrier(r, local_clear(Cur, r, q).wq)
  /\ UNCHANGED <<policy, chan, cur, dtor, arr, settled, procLog>>

\* Faulty variant of the destructor: the check is made without the barrier.
Destroy_nobarrier(r, q) ==
  /\ pc[r] = "user" /\ wq[r][q].alive
  /\ dtor' = [dtor EXCEPT ![r] = [q |-> q, n |-> local_size(Cur, r, q)]]
  /\ pc' = [pc EXCEPT ![r] = "check"]
  /\ mark' = [mark EXCEPT ![r] = [n |-> Queued(wq, r), at |-> Len(procLog[r]), c |-> clock[r]]]
  /\ UNCHANGED <<policy, wq, cbs, chan, cur, arr, clock, settled, procLog, discarded>>

\* ~work_queue(): enters its barrier; the check follows the barrier's return.
Destroy(r, q) ==
  /\ pc[r] = "user" /\ wq[r][q].alive
  /\ dtor' = [dtor EXCEPT ![r] = [q |-> q, n |-> local_size(Cur, r, q)]]
  /\ EnterBarrier(r, wq)
  /\ UNCHANGED <<policy, wq, cbs, chan, cur, arr, clock, settled, procLog, discarded>>

\* YGM_ASSERT_RELEASE(local_size() == 0) of the destructor, then the object is gone.
DtorCheck(r) ==
  /\ pc[r] = "check"
  /\ IF local_size(Cur, r, dtor[r].q) = 0
       THEN /\ wq' = [wq EXCEPT ![r][dtor[r].q] = Destroyed]
            /\ pc' = [pc EXCEPT ![r] = "user"]
       ELSE /\ wq' = wq
            /\ pc' = [pc EXCEPT ![r] = "aborted"]
  /\ dtor' = [dtor EXCEPT ![r] = [q |-> 0, n |-> 0]]
  /\ UNCHANGED <<policy, cbs, chan, cur, arr, clock, settled, mark, procLog, discarded>>

\* ------------------------------------------------------------- inside a barrier
\* The barrier takes the next pending pre-barrier callback and calls it: the
\* lambda of register_processing_callback starts local_process_all.
RunCallback(r) ==
  /\ pc[r] = "barrier" /\ cbs[r] # <<>>
  /\ cbs' = [cbs EXCEPT ![r] = Tail(@)]
  /\ cur' = [cur EXCEPT ![r] = [q |-> Head(cbs[r]), item |-> NoItem]]
  /\ pc' = [pc EXCEPT ![r] = IF wq[r][Head(cbs[r])].alive THEN "drain" ELSE "dangling"]
  /\ UNCHANGED <<policy, wq, chan, dtor, arr, clock, settled, mark, procLog, discarded>>

\* One turn of the loop of local_process_all: top, pop, call the work function.
ProcessNext(r) ==
  /\ pc[r] = "drain" /\ ~empty(wq[r][cur[r].q].m_local_queue)
  /\ \E i \in top_index(policy, wq[r][cur[r].q].m_local_queue) :
       LET q == cur[r].q
           qu == wq[r][q].m_local_queue
           item == top(policy, qu, i)
           rest == pop(policy, qu, i)
       IN /\ wq' = [wq EXCEPT ![r][q].m_local_queue = rest]
          /\ cur' = [cur EXCEPT ![r].item = item]
          /\ procLog' = [procLog EXCEPT ![r] =
                Append(@, [q |-> q, fn |-> wq[r][q].m_work_lambda, item |-> item,
                           size |-> size(rest), at |-> clock[r]])]
  /\ pc' = [pc EXCEPT ![r] = "work"]
  /\ UNCHANGED <<policy, cbs, chan, dtor, arr, clock, settled, mark, discarded>>

\* Faulty variants of the callback: one that returns without resetting
\* m_callback_registered, and one whose loop may stop before the container
\* is empty.
CallbackReturn_keepflag(r) ==
  /\ pc[r] = "drain" /\ empty(wq[r][cur[r].q].m_local_queue)
  /\ cur' = [cur EXCEPT ![r] = [q |-> 0, item |-> NoItem]]
  /\ pc' = [pc EXCEPT ![r] = "barrier"]
  /\ UNCHANGED <<policy, wq, cbs, chan, dtor, arr, clock, settled, mark, procLog, discarded>>

CallbackReturn_early(r) ==
  /\ pc[r] = "drain"
  /\ wq' = [wq EXCEPT ![r][cur[r].q].m_callback_registered = FALSE]
  /\ cur' = [cur EXCEPT ![r] = [q |-> 0, item |-> NoItem]]
  /\ pc' = [pc EXCEPT ![r] = "barrier"]
  /\ UNCHANGED <<policy, cbs, chan, dtor, arr, clock, settled, mark, procLog, discarded>>

\* The loop of local_process_all ends on an empty container; the callback then
\* resets m_callback_registered and returns to the barrier.
CallbackReturn(r) ==
  /\ pc[r] = "drain" /\ empty(wq[r][cur[r].q].m_local_queue)
  /\ wq' = [wq EXCEPT ![r][cur[r].q].m_callback_registered = FALSE]
  /\ cur' = [cur EXCEPT ![r] = [q |-> 0, item |-> NoItem]]
  /\ pc' = [pc EXCEPT ![r] = "barrier"]
  /\ UNCHANGED <<policy, cbs, chan, dtor, arr, clock, settled, mark, procLog, discarded>>

\* The work function enqueues on its own queue through the handle it is given.
WorkInsert(r, v) ==
  /\ pc[r] = "work"
  /\ Commit(local_insert(Cur, r, cur[r].q, v, "work"))
  /\ UNCHANGED <<policy, chan, pc, cur, dtor, arr, settled, mark, procLog, discarded>>

\* The work function sends an async RPC whose handler enqueues v on rank d.
\* The handler dereferences the queue of rank d: the program sends to a queue
\* that exists and whose destructor is not past its barrier.
WorkSend(r, d, v) ==
  /\ pc[r] = "work"
  /\ wq[d][cur[r].q].alive
  /\ ~(pc[d] = "check" /\ dtor[d].q = cur[r].q)
  /\ chan' = [chan EXCEPT ![r][d] = Append(@, [kind |-> "insert", q |-> cur[r].q, v |-> v])]
  /\ UNCHANGED <<policy, wq, cbs, pc, cur, dtor, arr, clock, settled, mark, procLog, discarded>>

WorkReturn(r) ==
  /\ pc[r] = "work"
  /\ cur' = [cur EXCEPT ![r].item = NoItem]
  /\ pc' = [pc EXCEPT ![r] = "drain"]
  /\ UNCHANGED <<policy, wq, cbs, chan, dtor, arr, clock, settled, mark, procLog, discarded>>

\* The barrier executes the next RPC from rank s: its handler calls local_insert.
Deliver(r, s) ==
  /\ pc[r] = "barrier" /\ chan[s][r] # <<>> /\ Head(chan[s][r]).kind = "insert"
  /\ chan' = [chan EXCEPT ![s][r] = Tail(@)]
  /\ Commit(local_insert(Cur, r, Head(chan[s][r]).q, Head(chan[s][r]).v, "rpc"))
  /\ UNCHANGED <<policy, pc, cur, dtor, arr, settled, mark, procLog, discarded>>

\* Quiescence: every rank is in the barrier, no callback is pending anywhere
\* and no RPC is in flight.  All ranks return.
BarrierReturn ==
  /\ \A r \in Ranks : pc[r] = "barrier" /\ cbs[r] = <<>>
  /\ \A s \in Ranks : \A d \in Ranks : chan[s][d] = <<>>
  /\ settled' = clock
  /\ pc' = [r \in Ranks |-> IF dtor[r].q # 0 THEN "check" ELSE "user"]
  /\ UNCHANGED <<policy, wq, cbs, chan, cur, dtor, arr, clock, mark, procLog, discarded>>

\* Under Spec every item carries the value 0 and items are told apart by
\* their stamps; the priority policies meet distinct values under SpecOrder.
Vals == {0}

\* The bounds guard the steps that create items or pending callbacks.
MayInsert == Issued < MaxInserts

MayMove(r) == Len(cbs[r]) < MaxPending

\* With equal values the two comparators choose alike, so Spec takes one of them.
Init == InitWith({"fifo", "lifo", "priority_less"})

Next ==
  \/ \E r \in Ranks, q \in WQ, v \in Vals : LocalInsert(r, q, v) /\ MayInsert /\ UNCHANGED aliasVars
  \/ \E r \in Ranks, v \in Vals : WorkInsert(r, v) /\ MayInsert /\ UNCHANGED aliasVars
  \/ \E r \in Ranks, d \in Ranks, v \in Vals : WorkSend(r, d, v) /\ MayInsert /\ UNCHANGED aliasVars
  \/ \E r \in Drivers, q \in WQ : Construct(r, q) /\ UNCHANGED aliasVars
  \/ \E r \in Drivers, q \in WQ : LocalClear(r, q) /\ UNCHANGED aliasVars
  \/ \E r \in Drivers, q \in WQ : Clear(r, q) /\ UNCHANGED aliasVars
  \/ \E r \in Drivers, q \in WQ : Destroy(r, q) /\ UNCHANGED aliasVars
  \/ \E r \in Drivers, q \in WQ, other \in WQ : MoveConstruct(r, q, other) /\ MayMove(r) /\ UNCHANGED aliasVars
  \/ \E r \in Drivers, q \in WQ, other \in WQ : MoveAssign(r, q, other) /\ MayMove(r) /\ UNCHANGED aliasVars
  \/ \E r \in Ranks : BarrierEnter(r) /\ UNCHANGED aliasVars
  \/ \E r \in Ranks : DtorCheck(r) /\ UNCHANGED aliasVars
  \/ \E r \in Ranks : RunCallback(r) /\ UNCHANGED aliasVars
  \/ \E r \in Ranks : ProcessNext(r) /\ UNCHANGED aliasVars
  \/ \E r \in Ranks : CallbackReturn(r) /\ UNCHANGED aliasVars
  \/ \E r \in Ranks : WorkReturn(r) /\ UNCHANGED aliasVars
  \/ \E r \in Ranks, s \in Ranks : Deliver(r, s) /\ UNCHANGED aliasVars
  \/ BarrierReturn /\ UNCHANGED aliasVars

Spec == Init /\ [][Next]_vars

\* ------------------------------------------------------------- ordering
\* One queue on rank 0 under each policy, items of any value, inserted by user
\* code and by the work function; the other ranks only take part in barriers.
InitOrder == InitWith(Policies)

MayInsertOrder == Issued < MaxBatch

NextOrder ==
  \/ \E v \in Items : LocalInsert(0, 1, v) /\ MayInsertOrder /\ UNCHANGED aliasVars
  \/ \E v \in Items : WorkInsert(0, v) /\ MayInsertOrder /\ UNCHANGED aliasVars
  \/ \E r \in Ranks : BarrierEnter(r) /\ UNCHANGED aliasVars
  \/ RunCallback(0) /\ UNCHANGED aliasVars
  \/ ProcessNext(0) /\ UNCHANGED aliasVars
  \/ CallbackReturn(0) /\ UNCHANGED aliasVars
  \/ WorkReturn(0) /\ UNCHANGED aliasVars
  \/ BarrierReturn /\ UNCHANGED aliasVars

SpecOrder == InitOrder /\ [][NextOrder]_vars

\* The callback runs on the rank's single thread: once started, the loop of
\* local_process_all takes its next turn, the work function returns, and the
\* callback returns when the loop has ended. What the work function inserts
\* is its own choice (and bounded by MayInsertOrder).
FairDrain ==
  /\ WF_vars(ProcessNext(0) /\ UNCHANGED aliasVars)
  /\ WF_vars(WorkReturn(0) /\ UNCHANGED aliasVars)
  /\ WF_vars(CallbackReturn(0) /\ UNCHANGED aliasVars)

\* The drain with items that need not be told apart by value.
NextDrain ==
  \/ \E v \in Vals : LocalInsert(0, 1, v) /\ MayInsertOrder /\ UNCHANGED aliasVars
  \/ \E v \in Vals : WorkInsert(0, v) /\ MayInsertOrder /\ UNCHANGED aliasVars
  \/ \E r \in Ranks : BarrierEnter(r) /\ UNCHANGED aliasVars
  \/ RunCallback(0) /\ UNCHANGED aliasVars
  \/ ProcessNext(0) /\ UNCHANGED aliasVars
  \/ CallbackReturn(0) /\ UNCHANGED aliasVars
  \/ WorkReturn(0) /\ UNCHANGED aliasVars
  \/ BarrierReturn /\ UNCHANGED aliasVars

SpecDrain == InitOrder /\ [][NextDrain]_vars /\ FairDrain

\* ------------------------------------------------------------- traversal
\* The container traversal test: the array holds arr[i] = i, rank 0 inserts 0,
\* every rank calls barrier.  The work function visits the cell of its item
\* with an RPC to the cell's owner; the visitor enqueues the next index on the
\* owner's queue and zeroes the cell.

\* Block partition of the array over the ranks.
BlockSize == (ArraySize \div Cardinality(Ranks)) + (IF ArraySize % Cardinality(Ranks) > 0 THEN 1 ELSE 0)

Owner(i) == i \div BlockSize

\* work_lambda: arr.async_visit(item, recv_enqueue_lambda, p_wq), then return.
VisitWork(r) ==
  /\ pc[r] = "work"
  /\ chan' = [chan EXCEPT ![r][Owner(cur[r].item.v)] =
                 Append(@, [kind |-> "visit", q |-> cur[r].q, v |-> cur[r].item.v])]
  /\ cur' = [cur EXCEPT ![r].item = NoItem]
  /\ pc' = [pc EXCEPT ![r] = "drain"]
  /\ UNCHANGED <<policy, wq, cbs, dtor, arr, clock, settled, mark, procLog, discarded>>

\* recv_enqueue_lambda on the owner of cell i: if (val < size - 1)
\* p_wq->local_insert(val + 1); val = 0.
DeliverVisit(r, s) ==
  /\ pc[r] = "barrier" /\ chan[s][r] # <<>> /\ Head(chan[s][r]).kind = "visit"
  /\ LET m == Head(chan[s][r])
         val == arr[m.v]
     IN /\ IF val < ArraySize - 1
             THEN Commit(local_insert(Cur, r, m.q, val + 1, "rpc"))
             ELSE UNCHANGED <<wq, cbs, clock>>
        /\ arr' = [arr EXCEPT ![m.v] = 0]
  /\ chan' = [chan EXCEPT ![s][r] = Tail(@)]
  /\ UNCHANGED <<policy, pc, cur, dtor, settled, mark, procLog, discarded>>

InitChain == InitWith(Policies)

NextChain ==
  \/ LocalInsert(0, 1, 0) /\ clock[0] = 0 /\ UNCHANGED aliasVars
  \/ \E r \in Ranks : BarrierEnter(r) /\ (r = 0 => clock[0] > 0) /\ UNCHANGED aliasVars
  \/ \E r \in Ranks : RunCallback(r) /\ UNCHANGED aliasVars
  \/ \E r \in Ranks : ProcessNext(r) /\ UNCHANGED aliasVars
  \/ \E r \in Ranks : CallbackReturn(r) /\ UNCHANGED aliasVars
  \/ \E r \in Ranks : VisitWork(r) /\ UNCHANGED aliasVars
  \/ \E r \in Ranks, s \in Ranks : DeliverVisit(r, s) /\ UNCHANGED aliasVars
  \/ BarrierReturn /\ UNCHANGED aliasVars

SpecChain == InitChain /\ [][NextChain]_vars

\* ------------------------------------------------------------- recursion test
\* The test of recursive calls with priority ordering: a priority queue with
\* std::greater on every rank, the rank inserts 0 and calls barrier.

\* work_lambda: below the cutoff it inserts queued_item + cutoff + 1 and then
\* queued_item + 1 through the handle; from the cutoff on it inserts nothing.
RecurseWork(r) ==
  /\ pc[r] = "work"
  /\ LET queued_item == cur[r].item.v
     IN IF queued_item < Cutoff
          THEN Commit(local_insert(local_insert(Cur, r, cur[r].q, queued_item + Cutoff + 1, "work"),
                                   r, cur[r].q, queued_item + 1, "work"))
          ELSE UNCHANGED <<wq, cbs, clock>>
  /\ cur' = [cur EXCEPT ![r].item = NoItem]
  /\ pc' = [pc EXCEPT ![r] = "drain"]
  /\ UNCHANGED <<policy, chan, dtor, arr, settled, mark, procLog, discarded>>

InitRecurse == InitWith({"priority_greater"})

NextRecurse ==
  \/ \E r \in Ranks : LocalInsert(r, 1, 0) /\ clock[r] = 0 /\ UNCHANGED aliasVars
  \/ \E r \in Ranks : BarrierEnter(r) /\ clock[r] > 0 /\ settled[r] = 0 /\ UNCHANGED aliasVars
  \/ \E r \in Ranks : RunCallback(r) /\ UNCHANGED aliasVars
  \/ \E r \in Ranks : ProcessNext(r) /\ UNCHANGED aliasVars
  \/ \E r \in Ranks : RecurseWork(r) /\ UNCHANGED aliasVars
  \/ \E r \in Ranks : CallbackReturn(r) /\ UNCHANGED aliasVars
  \/ BarrierReturn /\ UNCHANGED aliasVars

SpecRecurse == InitRecurse /\ [][NextRecurse]_vars

\* ------------------------------------------------------------- properties
\* Where the item with stamp t of rank r is.
QueueCount(r, t) ==
  SumOver([q \in WQ |-> Cardinality({i \in 1..Len(wq[r][q].m_local_queue) :
                                       wq[r][q].m_local_queue[i].t = t})], 1, LastWQ)

LogCount(r, t) == Cardinality({i \in 1..Len(procLog[r]) : procLog[r][i].item.t = t})

DiscCount(r, t) == Cardinality({x \in discarded[r] : x.t = t})

\* No rank is inside a barrier.
Outside == \A r \in Ranks : pc[r] \in {"user", "check"}

\* Queue q of rank r has a callback pending in the communicator, or its
\* callback is running.
Covered(r, q) == (\E i \in 1..Len(cbs[r]) : cbs[r][i] = q) \/ cur[r].q = q

\* C1: after a barrier has returned, and until user code inserts again, every
\* queue of every rank is empty and its callback_registered flag is false,
\* whatever inserts, clears and moves came before the barrier.
C1_DrainedAfterBarrier ==
  (Outside /\ settled = clock) =>
    \A r \in Ranks : \A q \in WQ :
      empty(wq[r][q].m_local_queue) /\ ~wq[r][q].m_callback_registered

\* A barrier has returned after an insert, a clear, a second insert and a move
\* on rank 0: the moved item was processed through queue 2.
C1_Witness ==
  /\ Outside /\ settled = clock
  /\ discarded[0] # {}
  /\ Len(procLog[0]) >= 1 /\ procLog[0][1].q = 2 /\ procLog[0][1].item.into = 1
  /\ wq[0][2].alive

\* C2: every inserted item is in exactly one place: queued, handed to the work
\* function (once), or discarded; an item inserted before the last barrier
\* returned is no longer queued, so it was processed in the first barrier after
\* its insertion unless a clear discarded it; with the queues empty the number of
\* work invocations is the number of items inserted minus those discarded (n
\* after the first batch, n+m after the second).
C2_ExactlyOnce ==
  \A r \in Ranks :
    /\ \A t \in 1..clock[r] :
         /\ QueueCount(r, t) + LogCount(r, t) + DiscCount(r, t) = 1
         /\ t <= settled[r] => QueueCount(r, t) = 0
    /\ Queued(wq, r) = 0 => Len(procLog[r]) = clock[r] - Cardinality(discarded[r])

\* Two batches of one item on queue 1 of rank 0, each followed by a barrier,
\* no move and no clear: one invocation after the first barrier, two after
\* the second.
C2_Witness ==
  /\ Outside /\ settled = clock
  /\ Len(procLog[0]) = 2 /\ mark[0].at = 1 /\ mark[0].n = 1
  /\ procLog[0][1].item.org = "user" /\ procLog[0][2].item.org = "user"
  /\ procLog[0][1].q = 1 /\ procLog[0][2].q = 1
  /\ discarded[0] = {} /\ ~wq[0][2].alive /\ ~wq[0][2].gone

\* C6: when a barrier has returned, the work invocations on a rank during that
\* barrier number the n items queued there when the rank entered it plus the
\* items enqueued there while it ran (the k inserted by the work function, and
\* those inserted by RPC handlers).
C6_ReentrantCount ==
  \A r \in Ranks :
    pc[r] \in {"user", "check"} =>
      Len(procLog[r]) - mark[r].at = mark[r].n + (settled[r] - mark[r].c)

\* Rank 0 entered a barrier with one item queued, the work function enqueued
\* one more, and the barrier returned after two invocations.
C6_Witness ==
  /\ pc[0] = "user"
  /\ mark[0].n = 1 /\ settled[0] - mark[0].c = 1
  /\ Len(procLog[0]) - mark[0].at = 2
  /\ procLog[0][Len(procLog[0])].item.org = "work"

\* The queue of rank r that log entry i was taken from, as it is now.
QueueOf(r, i) == Range(wq[r][procLog[r][i].q].m_local_queue)

\* C3: with the FIFO policy the work function sees the items of a queue in the
\* order of their insertion: stamps increase along the log, and an item still
\* queued, put there by user code or by the work function during the drain, is
\* newer than every item already processed.
C3_FifoOrder ==
  policy = "fifo" =>
    \A r \in Ranks :
      /\ \A i, j \in 1..Len(procLog[r]) :
           (i < j /\ procLog[r][i].q = procLog[r][j].q) =>
             procLog[r][i].item.t < procLog[r][j].item.t
      /\ \A i \in 1..Len(procLog[r]) : \A x \in QueueOf(r, i) :
           procLog[r][i].item.t < x.t

\* Two items inserted by user code, a third by the work function while it ran
\* on the first: processed first, second, third.
C3_Witness ==
  /\ policy = "fifo" /\ Len(procLog[0]) = 3
  /\ procLog[0][1].at = 2 /\ procLog[0][2].at = 3
  /\ procLog[0][3].item.org = "work" /\ procLog[0][3].item.t = 3

\* C4: with the LIFO policy the item handed to the work function is the newest
\* of the items that were in the queue at that moment: of two items that were
\* both queued when the first of them was invoked, the newer one comes first
\* (reverse insertion order for the items inserted before the barrier), and an
\* item inserted during the drain comes before every older queued item.
C4_LifoOrder ==
  policy = "lifo" =>
    \A r \in Ranks :
      /\ \A i, j \in 1..Len(procLog[r]) :
           (i < j /\ procLog[r][i].q = procLog[r][j].q
                  /\ procLog[r][j].item.t <= procLog[r][i].at) =>
             procLog[r][i].item.t > procLog[r][j].item.t
      /\ \A i \in 1..Len(procLog[r]) : \A x \in QueueOf(r, i) :
           x.t <= procLog[r][i].at => x.t < procLog[r][i].item.t

\* Two items inserted by user code, a third by the work function while it ran
\* on the second: processed second, third, first.
C4_Witness ==
  /\ policy = "lifo" /\ Len(procLog[0]) = 3
  /\ procLog[0][1].item.t = 2 /\ procLog[0][2].item.t = 3 /\ procLog[0][3].item.t = 1
  /\ procLog[0][2].item.org = "work"

\* C5: with the priority policy the item x handed to the work function is a
\* maximum under Comp of the items queued at that moment: Comp(x, y) is false for
\* every y that was queued then, whether y is still queued or was processed
\* later; with the less-than comparator, distinct values that were queued
\* together are processed in strictly descending order.
C5_PriorityMax ==
  policy \in {"priority_less", "priority_greater"} =>
    \A r \in Ranks :
      /\ \A i \in 1..Len(procLog[r]) : \A y \in QueueOf(r, i) :
           y.t <= procLog[r][i].at => ~Comp(policy, procLog[r][i].item.v, y.v)
      /\ \A i, j \in 1..Len(procLog[r]) :
           (i < j /\ procLog[r][j].item.t <= procLog[r][i].at) =>
             /\ ~Comp(policy, procLog[r][i].item.v, procLog[r][j].item.v)
             /\ (policy = "priority_less"
                   /\ procLog[r][i].item.v # procLog[r][j].item.v) =>
                  procLog[r][i].item.v > procLog[r][j].item.v

\* The values 1, 2, 0 inserted in that order under the less-than comparator
\* and processed as 2, 1, 0.
C5_Witness ==
  /\ policy = "priority_less" /\ Len(procLog[0]) = 3
  /\ procLog[0][1].item.v = 2 /\ procLog[0][1].item.t = 2 /\ procLog[0][1].at = 3
  /\ procLog[0][2].item.v = 1 /\ procLog[0][2].item.t = 1
  /\ procLog[0][3].item.v = 0 /\ procLog[0][3].item.t = 3

\* A move of queue other into a different queue q on rank r.
MoveStep(r, q, other) == MoveConstruct(r, q, other) \/ MoveAssign(r, q, other)

\* What a move of a non-empty wq1 (other) into wq2 (q) leaves behind.
MovePost(r, q, other) ==
  /\ local_size(Cur', r, other) = 0
  /\ ~local_has_work(Cur', r, other)
  /\ ~wq'[r][other].m_callback_registered
  /\ local_size(Cur', r, q) = local_size(Cur, r, other)
  /\ wq'[r][q].m_local_queue = wq[r][other].m_local_queue
  /\ wq'[r][q].m_callback_registered
  /\ \E i \in 1..Len(cbs'[r]) : cbs'[r][i] = q

\* An item queued in another queue than the one it was inserted into has a
\* callback of its present queue ahead of it and has seen no barrier return.
MovedItemsCovered ==
  \A r \in Ranks : \A q \in WQ : \A x \in Range(wq[r][q].m_local_queue) :
    x.into # q =>
      /\ wq[r][q].m_callback_registered /\ Covered(r, q)
      /\ x.t > settled[r]

\* C7: a move construction or move assignment of wq2 from a wq1 holding n >= 1
\* items leaves wq1 empty, without work and with callback_registered false, and
\* wq2 with the same n items and a callback registered for it; the moved items
\* do not outlast the next barrier in wq2: when it returns they have gone
\* through the work function (or user code discarded them before it).
C7_MoveSafety ==
  /\ [][\A r \in Ranks : \A q \in WQ : \A other \in WQ \ {q} :
          (local_size(Cur, r, other) >= 1 /\ MoveStep(r, q, other))
             => MovePost(r, q, other)]_vars
  /\ [](MovedItemsCovered /\
        (Outside /\ settled = clock =>
           \A r \in Ranks : \A q \in WQ : empty(wq[r][q].m_local_queue)))

\* Two rounds on rank 0: an item moved from queue 1 into queue 2, first by move
\* construction and then by move assignment, each processed through queue 2
\* by the barrier that followed.
C7_Witness ==
  /\ Outside /\ settled = clock
  /\ Len(procLog[0]) = 2 /\ mark[0].at = 1
  /\ procLog[0][1].q = 2 /\ procLog[0][1].item.into = 1
  /\ procLog[0][2].q = 2 /\ procLog[0][2].item.into = 1
  /\ empty(wq[0][1].m_local_queue) /\ empty(wq[0][2].m_local_queue)

\* What local_clear of queue q on rank r changes and what it leaves alone.
ClearPost(r, q) ==
  /\ local_size(Cur', r, q) = 0
  /\ ~local_has_work(Cur', r, q)
  /\ procLog' = procLog
  /\ chan' = chan
  /\ pc' = pc /\ mark' = mark /\ settled' = settled
  /\ discarded'[r] = discarded[r] \cup Range(wq[r][q].m_local_queue)

\* C9: local_clear() empties the local container, invokes no work function,
\* sends no message and enters no barrier; right afterwards local_size() is 0
\* and local_has_work() is false; no discarded item is ever processed, by
\* the clear or by a later barrier.
C9_LocalClear ==
  /\ [][\A r \in Ranks : \A q \in WQ : LocalClear(r, q) => ClearPost(r, q)]_vars
  /\ [](\A r \in Ranks : \A x \in discarded[r] :
          LogCount(r, x.t) = 0 /\ QueueCount(r, x.t) = 0)

\* Rank 0 inserted an item, called local_clear, inserted another and is in
\* its first barrier, which has processed the second item only.
C9_Witness ==
  /\ pc[0] = "barrier" /\ cbs[0] = <<>> /\ settled[0] = 0
  /\ ~wq[0][2].alive /\ ~wq[0][2].gone
  /\ Cardinality(discarded[0]) = 1 /\ \A x \in discarded[0] : x.t = 1
  /\ Len(procLog[0]) = 1 /\ procLog[0][1].item.t = 2
  /\ mark[0].n = 1 /\ mark[0].c = 2

\* C10: a work queue that held items when its destructor was entered, with no
\* local_clear() before, still holds items at the destructor's check, which is
\* then fatal.
C10_DtorFatal ==
  \A r \in Ranks :
    (pc[r] = "check" /\ dtor[r].n > 0) => local_size(Cur, r, dtor[r].q) > 0

\* Number of work invocations on index i, over all ranks.
Visits(i) ==
  SumOver([r \in Ranks |-> Cardinality({k \in 1..Len(procLog[r]) :
                                          procLog[r][k].item.v = i})], 0, LastRank)

\* C8: an item that an RPC handler inserted during a barrier is queued only
\* while its rank is still in that barrier, with the queue's flag set and a
\* callback of the queue pending or running; in the chain, once the barrier
\* that follows rank 0's insert of 0 has returned, every index 0..N-1 has been
\* visited (once) and every cell is 0, under each policy.
C8_ChainTraversal ==
  /\ \A r \in Ranks : \A q \in WQ : \A x \in Range(wq[r][q].m_local_queue) :
       x.org = "rpc" =>
         /\ pc[r] # "user"
         /\ wq[r][q].m_callback_registered /\ Covered(r, q)
  /\ settled[0] > 0 =>
       \A i \in Cells : arr[i] = 0 /\ Visits(i) = 1

\* The barrier has returned; the chain went through both ranks, the last
\* index processed on the last rank from an item a handler had inserted.
C8_Witness ==
  /\ Outside /\ settled[0] > 0
  /\ procLog[0] # <<>> /\ procLog[LastRank] # <<>>
  /\ procLog[LastRank][Len(procLog[LastRank])].item.v = ArraySize - 1
  /\ procLog[LastRank][Len(procLog[LastRank])].item.org = "rpc"

\* ------------------------------------------------------------- alias table
\* Total weight of a list of items.
Weight(its) == SumOver([i \in 1..Len(its) |-> its[i].weight], 1, Len(its))

\* Total weight of the items of a list that carry id x.
WeightOf(its, x) ==
  SumOver([i \in 1..Len(its) |-> IF its[i].id = x THEN its[i].weight ELSE 0], 1, Len(its))

\* ygm::sum(local_weight, m_comm).
sum(f) == SumOver(f, 0, NumRanks - 1)

\* Faulty variant of the prefix sum: the rank's own weight is included.
prefix_sum_inclusive(f, r) == SumOver(f, 0, r)

\* ygm::prefix_sum(local_weight, m_comm) on rank r: the weight "being
\* contributed by other processors", that of the ranks below r.
prefix_sum(f, r) == SumOver(f, 0, r - 1)

\* Faulty variant of the loop: an item that crosses the target is sent whole
\* to the rank being filled instead of being split.
RECURSIVE balance_loop_nosplit(_, _)
balance_loop_nosplit(st, T) ==
  IF st.i > Len(st.its)
    THEN st
    ELSE LET local_item == st.its[st.i]
         IN IF st.curr + local_item.weight >= T
              THEN balance_loop_nosplit(
                     [its |-> st.its,
                      i |-> st.i + 1,
                      curr |-> 0,
                      dest |-> st.dest + 1,
                      batch |-> <<>>,
                      out |-> IF st.dest < NumRanks
                                THEN Append(st.out, [dest |-> st.dest,
                                                     items |-> Append(st.batch, local_item)])
                                ELSE st.out], T)
              ELSE balance_loop_nosplit(
                     [st EXCEPT !.i = @ + 1,
                                !.curr = @ + local_item.weight,
                                !.batch = Append(@, local_item)], T)

\* Faulty variant of the loop: every remainder is appended to the list, also
\* one that does not fill a rank.
RECURSIVE balance_loop_appendall(_, _)
balance_loop_appendall(st, T) ==
  IF st.i > Len(st.its)
    THEN st
    ELSE LET local_item == st.its[st.i]
         IN IF st.curr + local_item.weight >= T
              THEN LET remaining_weight == st.curr + local_item.weight - T
                       weight_to_send == local_item.weight - remaining_weight
                       items_to_send == Append(st.batch, [id |-> local_item.id, weight |-> weight_to_send])
                   IN balance_loop_appendall(
                        [its |-> IF remaining_weight > 0
                                   THEN Append(st.its, [id |-> local_item.id, weight |-> remaining_weight])
                                   ELSE st.its,
                         i |-> st.i + 1,
                         curr |-> 0,
                         dest |-> st.dest + 1,
                         batch |-> <<>>,
                         out |-> IF st.dest < NumRanks
                                   THEN Append(st.out, [dest |-> st.dest, items |-> items_to_send])
                                   ELSE st.out], T)
              ELSE balance_loop_appendall(
                     [st EXCEPT !.i = @ + 1,
                                !.curr = @ + local_item.weight,
                                !.batch = Append(@, local_item)], T)

\* One pass of the loop of balance_weight over m_local_items, from position
\* st.i on; st.out collects the async calls made, in order.
RECURSIVE balance_loop(_, _)
balance_loop(st, T) ==
  IF st.i > Len(st.its)
    THEN st
    ELSE LET local_item == st.its[st.i]
         IN IF st.curr + local_item.weight >= T
              THEN LET remaining_weight == st.curr + local_item.weight - T
                       weight_to_send == local_item.weight - remaining_weight
                       items_to_send == Append(st.batch, [id |-> local_item.id, weight |-> weight_to_send])
                       spans == remaining_weight >= T
                       curr_weight == IF spans THEN 0 ELSE remaining_weight
                   IN balance_loop(
                        [its |-> IF spans
                                   THEN Append(st.its, [id |-> local_item.id, weight |-> remaining_weight])
                                   ELSE st.its,
                         i |-> st.i + 1,
                         curr |-> curr_weight,
                         dest |-> st.dest + 1,
                         batch |-> IF curr_weight # 0
                                     THEN <<[id |-> local_item.id, weight |-> curr_weight]>>
                                     ELSE <<>>,
                         out |-> IF st.dest < NumRanks
                                   THEN Append(st.out, [dest |-> st.dest, items |-> items_to_send])
                                   ELSE st.out], T)
              ELSE balance_loop(
                     [st EXCEPT !.i = @ + 1,
                                !.curr = @ + local_item.weight,
                                !.batch = Append(@, local_item)], T)

\* Faulty variant of the sends: the batch left over after the loop is not sent.
balance_sends_notail(its, b) ==
  LET st == balance_loop([its |-> its, i |-> 1, curr |-> b.curr_weight, dest |-> b.dest_rank,
                          batch |-> <<>>, out |-> <<>>], b.target_weight)
  IN [its |-> st.its, out |-> st.out]

\* The sends of balance_weight on a rank: the loop, then the batch left over.
balance_sends(its, b) ==
  LET st == balance_loop([its |-> its, i |-> 1, curr |-> b.curr_weight, dest |-> b.dest_rank,
                          batch |-> <<>>, out |-> <<>>], b.target_weight)
  IN [its |-> st.its,
      out |-> IF Len(st.batch) > 0 /\ st.dest < NumRanks
                THEN Append(st.out, [dest |-> st.dest, items |-> st.batch])
                ELSE st.out]

\* The sends of balance_weight on a rank when global_weight is 0: target_weight
\* is 0, curr_weight = fmod(0, 0) is NaN and every comparison with it is false,
\* so the loop pushes every item into items_to_send and appends nothing; the
\* batch is sent if dest_rank < m_comm.size().
balance_sends_nan(its, b) ==
  [its |-> its,
   out |-> IF Len(its) > 0 /\ b.dest_rank < NumRanks
             THEN <<[dest |-> b.dest_rank, items |-> its]>>
             ELSE <<>>]

\* The messages of a list of sends that go to rank d, in order.
SendsTo(out, d) == SelectSeq(out, LAMBDA m : m.dest = d)

\* Faulty variants of the pairing loop: one writes the heavy id into a and
\* the light id into b; one pops a heavy item that became light without
\* pushing it onto the light stack.
RECURSIVE vose_pair_swapped(_, _, _, _)
vose_pair_swapped(light_items, heavy_items, tbl, avg_weight) ==
  IF light_items = <<>> \/ heavy_items = <<>>
    THEN [light |-> light_items, heavy |-> heavy_items, tbl |-> tbl]
    ELSE LET l == light_items[Len(light_items)]
             h == heavy_items[Len(heavy_items)]
             tbl_itm == [p |-> l.weight, a |-> h.id, b |-> l.id]
             h_weight == (h.weight + l.weight) - avg_weight
             light_popped == SubSeq(light_items, 1, Len(light_items) - 1)
         IN IF h_weight < avg_weight
              THEN vose_pair_swapped(Append(light_popped, [id |-> h.id, weight |-> h_weight]),
                                     SubSeq(heavy_items, 1, Len(heavy_items) - 1),
                                     Append(tbl, tbl_itm), avg_weight)
              ELSE vose_pair_swapped(light_popped,
                                     [heavy_items EXCEPT ![Len(heavy_items)].weight = h_weight],
                                     Append(tbl, tbl_itm), avg_weight)

RECURSIVE vose_pair_drop(_, _, _, _)
vose_pair_drop(light_items, heavy_items, tbl, avg_weight) ==
  IF light_items = <<>> \/ heavy_items = <<>>
    THEN [light |-> light_items, heavy |-> heavy_items, tbl |-> tbl]
    ELSE LET l == light_items[Len(light_items)]
             h == heavy_items[Len(heavy_items)]
             tbl_itm == [p |-> l.weight, a |-> l.id, b |-> h.id]
             h_weight == (h.weight + l.weight) - avg_weight
             light_popped == SubSeq(light_items, 1, Len(light_items) - 1)
         IN IF h_weight < avg_weight
              THEN vose_pair_drop(light_popped,
                                  SubSeq(heavy_items, 1, Len(heavy_items) - 1),
                                  Append(tbl, tbl_itm), avg_weight)
              ELSE vose_pair_drop(light_popped,
                                  [heavy_items EXCEPT ![Len(heavy_items)].weight = h_weight],
                                  Append(tbl, tbl_itm), avg_weight)

\* Faulty variant of the pairing loop: a heavy item whose weight falls below
\* avg_weight stays on the heavy stack.
RECURSIVE vose_pair_keepheavy(_, _, _, _)
vose_pair_keepheavy(light_items, heavy_items, tbl, avg_weight) ==
  IF light_items = <<>> \/ heavy_items = <<>>
    THEN [light |-> light_items, heavy |-> heavy_items, tbl |-> tbl]
    ELSE LET l == light_items[Len(light_items)]
             h == heavy_items[Len(heavy_items)]
             tbl_itm == [p |-> l.weight, a |-> l.id, b |-> h.id]
             h_weight == (h.weight + l.weight) - avg_weight
         IN vose_pair_keepheavy(SubSeq(light_items, 1, Len(light_items) - 1),
                                [heavy_items EXCEPT ![Len(heavy_items)].weight = h_weight],
                                Append(tbl, tbl_itm), avg_weight)

\* The pairing loop of build_local_alias_table (Vose): light and heavy are
\* stacks, their back is the last element.
RECURSIVE vose_pair(_, _, _, _)
vose_pair(light_items, heavy_items, tbl, avg_weight) ==
  IF light_items = <<>> \/ heavy_items = <<>>
    THEN [light |-> light_items, heavy |-> heavy_items, tbl |-> tbl]
    ELSE LET l == light_items[Len(light_items)]
             h == heavy_items[Len(heavy_items)]
             tbl_itm == [p |-> l.weight, a |-> l.id, b |-> h.id]
             h_weight == (h.weight + l.weight) - avg_weight
             light_popped == SubSeq(light_items, 1, Len(light_items) - 1)
         IN IF h_weight < avg_weight
              THEN vose_pair(Append(light_popped, [id |-> h.id, weight |-> h_weight]),
                             SubSeq(heavy_items, 1, Len(heavy_items) - 1),
                             Append(tbl, tbl_itm), avg_weight)
              ELSE vose_pair(light_popped,
                             [heavy_items EXCEPT ![Len(heavy_items)].weight = h_weight],
                             Append(tbl, tbl_itm), avg_weight)

\* The two flushing loops: one bucket (avg_weight, id, Item()) per item left,
\* from the back of the stack.
RECURSIVE vose_flush(_, _, _)
vose_flush(stack, tbl, avg_weight) ==
  IF stack = <<>>
    THEN tbl
    ELSE vose_flush(SubSeq(stack, 1, Len(stack) - 1),
                    Append(tbl, [p |-> avg_weight, a |-> stack[Len(stack)].id, b |-> DefaultItem]),
                    avg_weight)

\* build_local_alias_table on a list of n items: avg_weight = local_weight / n.
\* The weights are taken times n, so that avg_weight is local_weight.
build_local_alias_table(its) ==
  LET n == Len(its)
      avg_weight == Weight(its)
      scaled == [i \in 1..n |-> [id |-> its[i].id, weight |-> n * its[i].weight]]
      paired == vose_pair(SelectSeq(scaled, LAMBDA itm : itm.weight < avg_weight),
                          SelectSeq(scaled, LAMBDA itm : ~(itm.weight < avg_weight)),
                          <<>>, avg_weight)
  IN [table |-> vose_flush(paired.light, vose_flush(paired.heavy, paired.tbl, avg_weight),
                           avg_weight),
      avg_weight |-> avg_weight]

\* ------------------------------------------------------------- construction
\* Items given to the constructors so far, over all ranks.
InputSize == SumOver([r \in ARanks |-> Len(input[r])], 0, NumRanks - 1)

\* User code on rank r puts one more (id, weight) pair into the container it
\* will construct the table from.
AddItem(r, x, w) ==
  /\ apc[r] = "none"
  /\ input' = [input EXCEPT ![r] = Append(@, [id |-> x, weight |-> w])]
  /\ UNCHANGED <<m_local_items, new_local_items, post, m_local_alias_table, m_avg_weight,
                 bal, apc, achan, calls, visits>>

\* The weights of a container in units of 1/NumRanks.
InUnits(its) == [i \in 1..Len(its) |-> [id |-> its[i].id, weight |-> NumRanks * its[i].weight]]

\* Every rank constructs the table: the constructor copies the container into
\* m_local_items; build_alias_table and balance_weight compute, with two
\* collectives, the locals of the loop.
AliasStart ==
  /\ \A r \in ARanks : apc[r] = "none"
  /\ LET items == [r \in ARanks |-> InUnits(input[r])]
         local_weight == [r \in ARanks |-> Weight(items[r])]
         global_weight == sum(local_weight)
         target_weight == global_weight \div NumRanks
     IN /\ global_weight > 0
        /\ m_local_items' = items
        /\ bal' = [r \in ARanks |->
                     [target_weight |-> target_weight,
                      dest_rank |-> prefix_sum(local_weight, r) \div target_weight,
                      curr_weight |-> prefix_sum(local_weight, r) % target_weight]]
  /\ apc' = [r \in ARanks |-> "coll"]
  /\ UNCHANGED <<input, new_local_items, post, m_local_alias_table, m_avg_weight,
                 achan, calls, visits>>

\* What the conversion of prfx_sum_weight / target_weight = 0.0 / 0.0 (NaN) to
\* int may give on a rank, the conversion being undefined: a negative value
\* (-1 stands for all of them), a rank, or a value past the last rank
\* (NumRanks stands for all of them). A rank without items never reads it.
NanToInt(its) == IF Len(its) > 0 THEN -1..NumRanks ELSE {NumRanks}

\* The same steps as AliasStart when global_weight is 0: target_weight is 0
\* and curr_weight is NaN (written 0 here and never read).
AliasStartZero ==
  /\ \A r \in ARanks : apc[r] = "none"
  /\ sum([r \in ARanks |-> Weight(input[r])]) = 0
  /\ m_local_items' = [r \in ARanks |-> InUnits(input[r])]
  /\ \E dest \in [ARanks -> -1..NumRanks] :
       /\ \A r \in ARanks : dest[r] \in NanToInt(input[r])
       /\ bal' = [r \in ARanks |->
                    [target_weight |-> 0, dest_rank |-> dest[r], curr_weight |-> 0]]
  /\ apc' = [r \in ARanks |-> "coll"]
  /\ UNCHANGED <<input, new_local_items, post, m_local_alias_table, m_avg_weight,
                 achan, calls, visits>>

\* Rank r declares new_local_items, makes the ygm_ptr to it and enters the
\* barrier before the loop.
MakeCollector(r) ==
  /\ apc[r] = "coll"
  /\ new_local_items' = [new_local_items EXCEPT ![r] = <<>>]
  /\ apc' = [apc EXCEPT ![r] = "made"]
  /\ UNCHANGED <<input, m_local_items, post, m_local_alias_table, m_avg_weight,
                 bal, achan, calls, visits>>

\* The barrier before the loop returns: every rank is in it and no RPC is in flight.
CollectorReturn ==
  /\ \A r \in ARanks : apc[r] = "made"
  /\ \A s \in ARanks : \A d \in ARanks : achan[s][d] = <<>>
  /\ apc' = [r \in ARanks |-> "loop"]
  /\ UNCHANGED <<input, m_local_items, new_local_items, post, m_local_alias_table,
                 m_avg_weight, bal, achan, calls, visits>>

\* The loop of balance_weight on rank r and the send of the last batch; the
\* rank then enters the barrier. With target_weight 0 and a negative
\* dest_rank the async call indexes the communicator out of range and the
\* process dies.
BalanceWeight(r) ==
  /\ apc[r] = "loop"
  /\ \E res \in {IF bal[r].target_weight = 0
                    THEN balance_sends_nan(m_local_items[r], bal[r])
                    ELSE balance_sends(m_local_items[r], bal[r])} :
       /\ m_local_items' = [m_local_items EXCEPT ![r] = res.its]
       /\ achan' = [achan EXCEPT ![r] =
                      [d \in ARanks |-> achan[r][d] \o
                         [i \in 1..Len(SendsTo(res.out, d)) |->
                            [kind |-> "items", items |-> SendsTo(res.out, d)[i].items]]]]
       /\ apc' = [apc EXCEPT ![r] =
                    IF \E k \in 1..Len(res.out) : res.out[k].dest < 0
                      THEN "aborted" ELSE "sent"]
  /\ UNCHANGED <<input, new_local_items, post, m_local_alias_table, m_avg_weight,
                 bal, calls, visits>>

\* Rank d, inside a call of the communicator (a barrier or an async of its
\* loop), executes the next RPC of the balancer from rank s: the items are
\* appended to the collector.
ReceiveItems(d, s) ==
  /\ apc[d] \in {"made", "loop", "sent"}
  /\ achan[s][d] # <<>> /\ Head(achan[s][d]).kind = "items"
  /\ new_local_items' = [new_local_items EXCEPT ![d] = @ \o Head(achan[s][d]).items]
  /\ achan' = [achan EXCEPT ![s][d] = Tail(@)]
  /\ UNCHANGED <<input, m_local_items, post, m_local_alias_table, m_avg_weight,
                 bal, apc, calls, visits>>

\* Faulty variant of the barrier after the sends: it returns when every rank
\* is in it, whether or not the RPCs sent have been executed.
BalanceReturn_noflush ==
  /\ \A r \in ARanks : apc[r] = "sent"
  /\ apc' = [r \in ARanks |-> "swap"]
  /\ UNCHANGED <<input, m_local_items, new_local_items, post, m_local_alias_table,
                 m_avg_weight, bal, achan, calls, visits>>

\* The barrier after the sends returns: every rank is in it and no RPC is in flight.
BalanceReturn ==
  /\ \A r \in ARanks : apc[r] = "sent"
  /\ \A s \in ARanks : \A d \in ARanks : achan[s][d] = <<>>
  /\ apc' = [r \in ARanks |-> "swap"]
  /\ UNCHANGED <<input, m_local_items, new_local_items, post, m_local_alias_table,
                 m_avg_weight, bal, achan, calls, visits>>

\* The local test of is_balanced: the local weight is the target.
is_balanced(its, target) == Weight(its) = target

\* std::swap(new_local_items, m_local_items) and the two assertions; a rank that
\* passes waits in the barrier of is_balanced.
FinishBalance(r) ==
  /\ apc[r] = "swap"
  /\ m_local_items' = [m_local_items EXCEPT ![r] = new_local_items[r]]
  /\ new_local_items' = [new_local_items EXCEPT ![r] = <<>>]
  /\ post' = [post EXCEPT ![r] = new_local_items[r]]
  /\ apc' = [apc EXCEPT ![r] =
               IF Len(new_local_items[r]) > 0
                  /\ is_balanced(new_local_items[r], bal[r].target_weight)
                 THEN "balanced" ELSE "aborted"]
  /\ UNCHANGED <<input, m_local_alias_table, m_avg_weight, bal, achan, calls, visits>>

\* The collective test of is_balanced and the barrier of build_alias_table return.
BalancedReturn ==
  /\ \A r \in ARanks : apc[r] = "balanced"
  /\ apc' = [r \in ARanks |-> "build"]
  /\ UNCHANGED <<input, m_local_items, new_local_items, post, m_local_alias_table,
                 m_avg_weight, bal, achan, calls, visits>>

\* build_local_alias_table up to its barrier.
BuildLocal(r) ==
  /\ apc[r] = "build"
  /\ m_local_alias_table' = [m_local_alias_table EXCEPT ![r] =
                               build_local_alias_table(m_local_items[r]).table]
  /\ apc' = [apc EXCEPT ![r] = "built"]
  /\ UNCHANGED <<input, m_local_items, new_local_items, post, m_avg_weight,
                 bal, achan, calls, visits>>

BuiltReturn ==
  /\ \A r \in ARanks : apc[r] = "built"
  /\ apc' = [r \in ARanks |-> "fin"]
  /\ UNCHANGED <<input, m_local_items, new_local_items, post, m_local_alias_table,
                 m_avg_weight, bal, achan, calls, visits>>

\* The end of build_local_alias_table sets m_avg_weight; build_alias_table
\* clears m_local_items and the constructor returns.
Finish(r) ==
  /\ apc[r] = "fin"
  /\ m_avg_weight' = [m_avg_weight EXCEPT ![r] = build_local_alias_table(m_local_items[r]).avg_weight]
  /\ m_local_items' = [m_local_items EXCEPT ![r] = <<>>]
  /\ apc' = [apc EXCEPT ![r] = "ready"]
  /\ UNCHANGED <<input, new_local_items, post, m_local_alias_table, bal, achan, calls, visits>>

\* No rank below r is still in the given phase: the ranks take the phase in
\* rank order.
Before(r, phase) == \A q \in ARanks : q < r => apc[q] # phase

Weights == 0..MaxWeight

\* The id of the first item given is called 1: the code copies and compares
\* ids for nothing but equality, so an input whose first id is 2 behaves as
\* the one with the ids renamed.
MayAdd(x, w) ==
  /\ InputSize < MaxAliasItems
  /\ SumOver([r \in ARanks |-> Weight(input[r])], 0, NumRanks - 1) + w <= MaxWeight
  /\ InputSize = 0 => x = 1

InitAlias == WQIdle({"fifo"}) /\ AliasIdle

NextAlias ==
  \/ \E r \in ARanks, x \in Ids, w \in Weights : AddItem(r, x, w) /\ MayAdd(x, w) /\ UNCHANGED wqVars
  \/ AliasStart /\ UNCHANGED wqVars
  \/ \E r \in ARanks : MakeCollector(r) /\ UNCHANGED wqVars
  \/ CollectorReturn /\ UNCHANGED wqVars
  \/ \E r \in ARanks : BalanceWeight(r) /\ UNCHANGED wqVars
  \/ \E d \in ARanks, s \in ARanks : ReceiveItems(d, s) /\ UNCHANGED wqVars
  \/ BalanceReturn /\ UNCHANGED wqVars
  \/ \E r \in ARanks : FinishBalance(r) /\ UNCHANGED wqVars
  \/ BalancedReturn /\ UNCHANGED wqVars
  \/ \E r \in ARanks : BuildLocal(r) /\ Before(r, "build") /\ UNCHANGED wqVars
  \/ BuiltReturn /\ UNCHANGED wqVars
  \/ \E r \in ARanks : Finish(r) /\ Before(r, "fin") /\ UNCHANGED wqVars

SpecAlias == InitAlias /\ [][NextAlias]_vars

\* ------------------------------------------------------------- constructor, rank by rank
\* The constructor's steps are local to a rank except for the RPCs, so what the
\* constructor builds depends on the input and on the order in which each rank
\* executes the RPCs sent to it. SpecBuild takes the steps in one schedule: the
\* ranks run each phase in rank order, and the RPCs are executed after the
\* sends, for rank 0 first (in any order of the senders), then for rank 1, ...
AllSent == \A r \in ARanks : apc[r] = "sent"

Delivered(d) == \A s \in ARanks : achan[s][d] = <<>>

\* The containers are filled rank by rank, and the id of the first item given
\* is called 1: the code copies and compares ids for nothing but equality, so
\* an input whose first id is 2 behaves as the one with the ids renamed.
MayBuild(r, x, w) ==
  /\ InputSize < MaxBuildItems
  /\ SumOver([q \in ARanks |-> Weight(input[q])], 0, NumRanks - 1) + w <= MaxWeight
  /\ \A q \in ARanks : q > r => input[q] = <<>>
  /\ InputSize = 0 => x = 1

InitBuild == WQIdle({"fifo"}) /\ AliasIdle

NextBuild ==
  \/ \E r \in ARanks, x \in Ids, w \in Weights : AddItem(r, x, w) /\ MayBuild(r, x, w) /\ UNCHANGED wqVars
  \/ AliasStart /\ UNCHANGED wqVars
  \/ AliasStartZero /\ UNCHANGED wqVars
  \/ \E r \in ARanks : MakeCollector(r) /\ Before(r, "coll") /\ UNCHANGED wqVars
  \/ CollectorReturn /\ UNCHANGED wqVars
  \/ \E r \in ARanks : BalanceWeight(r) /\ Before(r, "loop") /\ UNCHANGED wqVars
  \/ \E d \in ARanks, s \in ARanks :
       /\ ReceiveItems(d, s) /\ AllSent
       /\ \A q \in ARanks : q < d => Delivered(q)
       /\ UNCHANGED wqVars
  \/ BalanceReturn /\ UNCHANGED wqVars
  \/ \E r \in ARanks : FinishBalance(r) /\ Before(r, "swap") /\ UNCHANGED wqVars
  \/ BalancedReturn /\ UNCHANGED wqVars
  \/ \E r \in ARanks : BuildLocal(r) /\ Before(r, "build") /\ UNCHANGED wqVars
  \/ BuiltReturn /\ UNCHANGED wqVars
  \/ \E r \in ARanks : Finish(r) /\ Before(r, "fin") /\ UNCHANGED wqVars

SpecBuild == InitBuild /\ [][NextBuild]_vars

\* ------------------------------------------------------------- sampler
\* Faulty variants of the selection: one flips the coin for every bucket,
\* whatever its p; one takes b for a bucket with p = m_avg_weight when f is
\* not above p.
selected_unguarded(tbl_itm, avg_weight, f_above_p) ==
  IF f_above_p THEN tbl_itm.b ELSE tbl_itm.a

selected_b_at_avg(tbl_itm, avg_weight, f_above_p) ==
  IF tbl_itm.p < avg_weight
    THEN (IF f_above_p THEN tbl_itm.b ELSE tbl_itm.a)
    ELSE (IF f_above_p THEN tbl_itm.a ELSE tbl_itm.b)

\* What sample_wrapper does with bucket tbl_itm when the coin shows f: a,
\* unless p < m_avg_weight and f > p.
selected(tbl_itm, avg_weight, f_above_p) ==
  IF tbl_itm.p < avg_weight /\ f_above_p THEN tbl_itm.b ELSE tbl_itm.a

\* f is uniform on [0, m_avg_weight): the measure of the f for which bucket
\* tbl_itm yields id x, in the units of p.
bucket_mass(tbl_itm, avg_weight, x) ==
  (IF selected(tbl_itm, avg_weight, FALSE) = x
     THEN (IF tbl_itm.p < avg_weight THEN tbl_itm.p ELSE avg_weight) ELSE 0)
  + (IF tbl_itm.p < avg_weight /\ selected(tbl_itm, avg_weight, TRUE) = x
       THEN avg_weight - tbl_itm.p ELSE 0)

\* Summed over the buckets of rank r.
Mass(r, x) ==
  SumOver([i \in 1..Len(m_local_alias_table[r]) |->
             bucket_mass(m_local_alias_table[r][i], m_avg_weight[r], x)],
          1, Len(m_local_alias_table[r]))

RECURSIVE ProdOver(_, _, _)
ProdOver(f, lo, hi) == IF hi < lo THEN 1 ELSE f[hi] * ProdOver(f, lo, hi - 1)

\* On rank r the chance of x is Mass(r, x) / RankDen(r): a uniform bucket, then f.
RankDen(r) == Len(m_local_alias_table[r]) * m_avg_weight[r]

\* The chance that one async_sample yields x is ProbNum(x) / ProbDen: a
\* uniform rank, then that rank's chance.
ProbNum(x) ==
  SumOver([r \in ARanks |->
             Mass(r, x) * ProdOver([s \in ARanks |-> IF s = r THEN 1 ELSE RankDen(s)],
                                   0, NumRanks - 1)], 0, NumRanks - 1)

ProbDen == NumRanks * ProdOver([s \in ARanks |-> RankDen(s)], 0, NumRanks - 1)

\* async_sample on rank r: m_rank_dist draws the rank d and one RPC goes to it.
AsyncSample(r, d) ==
  /\ apc[r] \in {"ready", "synced"}
  /\ calls' = [calls EXCEPT ![r] = @ + 1]
  /\ achan' = [achan EXCEPT ![r][d] = Append(@, [kind |-> "sample"])]
  /\ UNCHANGED <<input, m_local_items, new_local_items, post, m_local_alias_table,
                 m_avg_weight, bal, apc, visits>>

\* Faulty variants of the RPC: one drops the request when the coin selects b,
\* one takes the sampled bucket out of the table.
DeliverSample_skip(d, s, k, f_above_p) ==
  /\ apc[d] \in {"ready", "barrier", "synced"}
  /\ achan[s][d] # <<>> /\ Head(achan[s][d]).kind = "sample"
  /\ k \in 1..Len(m_local_alias_table[d])
  /\ visits' = [visits EXCEPT ![d] =
                  IF m_local_alias_table[d][k].p < m_avg_weight[d] /\ f_above_p THEN @
                  ELSE Append(@, selected(m_local_alias_table[d][k], m_avg_weight[d], f_above_p))]
  /\ achan' = [achan EXCEPT ![s][d] = Tail(@)]
  /\ UNCHANGED <<input, m_local_items, new_local_items, post, m_local_alias_table,
                 m_avg_weight, bal, apc, calls>>

DeliverSample_consume(d, s, k, f_above_p) ==
  /\ apc[d] \in {"ready", "barrier", "synced"}
  /\ achan[s][d] # <<>> /\ Head(achan[s][d]).kind = "sample"
  /\ k \in 1..Len(m_local_alias_table[d])
  /\ visits' = [visits EXCEPT ![d] =
                  Append(@, selected(m_local_alias_table[d][k], m_avg_weight[d], f_above_p))]
  /\ m_local_alias_table' = [m_local_alias_table EXCEPT ![d] =
                               SubSeq(@, 1, k - 1) \o SubSeq(@, k + 1, Len(@))]
  /\ achan' = [achan EXCEPT ![s][d] = Tail(@)]
  /\ UNCHANGED <<input, m_local_items, new_local_items, post,
                 m_avg_weight, bal, apc, calls>>

\* Rank d executes sample_wrapper for the next request of rank s:
\* m_num_items_uniform_dist draws bucket k, m_bucket_weight_dist draws f, and
\* the visitor is applied to the selected id.
DeliverSample(d, s, k, f_above_p) ==
  /\ apc[d] \in {"ready", "barrier", "synced"}
  /\ achan[s][d] # <<>> /\ Head(achan[s][d]).kind = "sample"
  /\ k \in 1..Len(m_local_alias_table[d])
  /\ visits' = [visits EXCEPT ![d] =
                  Append(@, selected(m_local_alias_table[d][k], m_avg_weight[d], f_above_p))]
  /\ achan' = [achan EXCEPT ![s][d] = Tail(@)]
  /\ UNCHANGED <<input, m_local_items, new_local_items, post, m_local_alias_table,
                 m_avg_weight, bal, apc, calls>>

\* User code on rank r calls world.barrier() after its samples.
SampleBarrierEnter(r) ==
  /\ apc[r] \in {"ready", "synced"}
  /\ apc' = [apc EXCEPT ![r] = "barrier"]
  /\ UNCHANGED <<input, m_local_items, new_local_items, post, m_local_alias_table,
                 m_avg_weight, bal, achan, calls, visits>>

\* The barrier returns: every rank is in it and no RPC is in flight.
SampleBarrierReturn ==
  /\ \A r \in ARanks : apc[r] = "barrier"
  /\ \A s \in ARanks : \A d \in ARanks : achan[s][d] = <<>>
  /\ apc' = [r \in ARanks |-> "synced"]
  /\ UNCHANGED <<input, m_local_items, new_local_items, post, m_local_alias_table,
                 m_avg_weight, bal, achan, calls, visits>>

TotalCalls == SumOver(calls, 0, NumRanks - 1)

TotalVisits == SumOver([r \in ARanks |-> Len(visits[r])], 0, NumRanks - 1)

IsSample(msg) == msg.kind = "sample"

SamplesInFlight ==
  SumOver([r \in ARanks |->
             SumOver([d \in ARanks |-> Len(SelectSeq(achan[r][d], IsSample))], 0, NumRanks - 1)],
          0, NumRanks - 1)

\* The containers the tables are built from: rank 0 holds id 1 with weight 1,
\* rank 1 holds id 2 with weight 1 or 3, rank 2 holds nothing. With weight 3
\* rank 0 gets a bucket with 0 < p < avg.
SampleInputs ==
  {[r \in ARanks |-> IF r = 0 THEN <<[id |-> 1, weight |-> 1]>>
                     ELSE IF r = 1 THEN <<[id |-> 2, weight |-> w]>> ELSE <<>>] : w \in {1, 3}}

InitSample == WQIdle({"fifo"}) /\ AliasFresh /\ input \in SampleInputs

NextSample ==
  \/ AliasStart /\ UNCHANGED wqVars
  \/ \E r \in ARanks : MakeCollector(r) /\ Before(r, "coll") /\ UNCHANGED wqVars
  \/ CollectorReturn /\ UNCHANGED wqVars
  \/ \E r \in ARanks : BalanceWeight(r) /\ Before(r, "loop") /\ UNCHANGED wqVars
  \/ \E d \in ARanks, s \in ARanks :
       /\ ReceiveItems(d, s) /\ AllSent
       /\ \A q \in ARanks : q < d => Delivered(q)
       /\ UNCHANGED wqVars
  \/ BalanceReturn /\ UNCHANGED wqVars
  \/ \E r \in ARanks : FinishBalance(r) /\ Before(r, "swap") /\ UNCHANGED wqVars
  \/ BalancedReturn /\ UNCHANGED wqVars
  \/ \E r \in ARanks : BuildLocal(r) /\ Before(r, "build") /\ UNCHANGED wqVars
  \/ BuiltReturn /\ UNCHANGED wqVars
  \/ \E r \in ARanks : Finish(r) /\ Before(r, "fin") /\ UNCHANGED wqVars
  \/ \E r \in ARanks, d \in ARanks :
       AsyncSample(r, d) /\ TotalCalls < MaxSamples /\ UNCHANGED wqVars
  \/ \E d \in ARanks, s \in ARanks, f_above_p \in BOOLEAN :
       \E k \in 1..Len(m_local_alias_table[d]) :
         DeliverSample(d, s, k, f_above_p) /\ UNCHANGED wqVars
  \/ \E r \in ARanks : SampleBarrierEnter(r) /\ UNCHANGED wqVars
  \/ SampleBarrierReturn /\ UNCHANGED wqVars

SpecSample == InitSample /\ [][NextSample]_vars

\* ------------------------------------------------------------- properties
\* G, and the input weight of id x, over all ranks.
GlobalInput == sum([r \in ARanks |-> Weight(input[r])])

InputOf(x) == sum([r \in ARanks |-> WeightOf(input[r], x)])

\* The ranks that have swapped the collector in.
Swapped(r) == apc[r] \in {"balanced", "aborted", "build", "built", "fin", "ready"}

AllSwapped == \A r \in ARanks : Swapped(r)

AllReady == \A r \in ARanks : apc[r] = "ready"

IdsOf(its) == {its[i].id : i \in 1..Len(its)}

\* C11: balance_weight's assertions never fail when G > 0: after the swap
\* every rank's item list is non-empty and weighs T = G / nranks (G in the
\* units of 1/nranks), so the ranks weigh the same and together G.
C11_BalancedPostcondition ==
  /\ \A r \in ARanks :
       /\ apc[r] # "aborted"
       /\ Swapped(r) => Len(post[r]) > 0 /\ Weight(post[r]) = GlobalInput
       /\ apc[r] \in {"balanced", "build", "built", "fin"} => m_local_items[r] = post[r]
  /\ AllSwapped => sum([r \in ARanks |-> Weight(post[r])]) = NumRanks * GlobalInput

\* Items on ranks 1 and 2 only; all ranks have passed the assertions and rank
\* 2 holds fragments of both items, of different weights.
C11_Witness ==
  /\ \A r \in ARanks : apc[r] = "balanced"
  /\ Len(input[0]) = 0 /\ Len(input[1]) = 1 /\ Len(input[2]) = 1
  /\ Len(post[2]) = 2 /\ post[2][1].id # post[2][2].id
  /\ post[2][1].weight # post[2][2].weight

\* C12: for every id x the fragments carrying x after balancing weigh, over
\* all ranks, what the input items carrying x weigh (in units of 1/nranks),
\* and no other id appears in a post-balance list.
C12_IdPreservation ==
  AllSwapped =>
    /\ \A x \in Ids \cup {DefaultItem} :
         sum([r \in ARanks |-> WeightOf(post[r], x)]) = NumRanks * InputOf(x)
    /\ \A r \in ARanks : IdsOf(post[r]) \subseteq UNION {IdsOf(input[s]) : s \in ARanks}

\* The same id given on two ranks with different weights, and balanced.
C12_Witness ==
  /\ AllSwapped
  /\ Len(input[0]) = 1 /\ Len(input[1]) = 1
  /\ input[0][1].id = input[1][1].id
  /\ input[0][1].weight > input[1][1].weight /\ input[1][1].weight > 0

\* C13: once the tables are built, the chance that one async_sample yields
\* id x is (input weight of x) / G, for every id x (and 0 for the value Item()).
C13_SamplingDistribution ==
  AllReady =>
    \A x \in Ids \cup {DefaultItem} : ProbNum(x) * GlobalInput = InputOf(x) * ProbDen

\* One item on every rank, two ids of positive weight; some rank's table has
\* a bucket with 0 < p < avg whose a was a heavy item before (it is the b of
\* the bucket before).
C13_Witness ==
  /\ AllReady
  /\ \A r \in ARanks : Len(input[r]) = 1
  /\ InputOf(1) > 0 /\ InputOf(2) > 0
  /\ \E r \in ARanks : \E i \in 2..Len(m_local_alias_table[r]) :
       /\ m_local_alias_table[r][i].p > 0
       /\ m_local_alias_table[r][i].p < m_avg_weight[r]
       /\ m_local_alias_table[r][i - 1].p < m_avg_weight[r]
       /\ m_local_alias_table[r][i].a = m_local_alias_table[r][i - 1].b

\* C14: on every rank, after construction, there are as many buckets as
\* post-balance items, every p is in 0..avg, every a is an id of the rank's
\* post-balance list and so is every b of a bucket with p < avg.
C14_TableInvariant ==
  \A r \in ARanks :
    apc[r] = "ready" =>
      /\ Len(m_local_alias_table[r]) = Len(post[r])
      /\ \A i \in 1..Len(m_local_alias_table[r]) :
           LET tbl_itm == m_local_alias_table[r][i]
           IN /\ 0 <= tbl_itm.p /\ tbl_itm.p <= m_avg_weight[r]
              /\ tbl_itm.a \in IdsOf(post[r])
              /\ tbl_itm.p < m_avg_weight[r] => tbl_itm.b \in IdsOf(post[r])

\* A rank whose table has two paired buckets (p < avg), the second for an
\* item that was heavy, followed by a flushed one (p = avg, b = Item()).
C14_Witness ==
  \E r \in ARanks :
    /\ apc[r] = "ready" /\ Len(m_local_alias_table[r]) = 3
    /\ m_local_alias_table[r][1].p < m_avg_weight[r]
    /\ m_local_alias_table[r][2].p < m_avg_weight[r]
    /\ m_local_alias_table[r][2].p > 0
    /\ m_local_alias_table[r][2].a = m_local_alias_table[r][1].b
    /\ m_local_alias_table[r][3].p = m_avg_weight[r]
    /\ m_local_alias_table[r][3].b = DefaultItem

\* The constructor has returned on every rank.
Constructed == \A r \in ARanks : apc[r] \in {"ready", "barrier", "synced"}

\* C15: every async_sample call sends exactly one RPC, to a rank of
\* 0..nranks-1, every RPC executed applies the visitor exactly once on the
\* rank it was sent to, and when a barrier returns the visits over all ranks
\* are as many as the calls over all ranks.
C15_OneVisitPerSample ==
  [][/\ TotalCalls' = TotalVisits' + SamplesInFlight'
     /\ calls' # calls =>
          /\ TotalCalls' = TotalCalls + 1 /\ SamplesInFlight' = SamplesInFlight + 1 /\ visits' = visits
          /\ \E r \in ARanks, d \in ARanks :
               /\ calls'[r] = calls[r] + 1
               /\ achan' = [achan EXCEPT ![r][d] = Append(@, [kind |-> "sample"])]
     /\ visits' # visits =>
          /\ calls' = calls
          /\ \E d \in ARanks, s \in ARanks :
               /\ Len(visits'[d]) = Len(visits[d]) + 1
               /\ \A q \in ARanks : q # d => visits'[q] = visits[q]
               /\ achan[s][d] # <<>> /\ Head(achan[s][d]).kind = "sample"
               /\ achan' = [achan EXCEPT ![s][d] = Tail(@)]
     /\ (\A r \in ARanks : apc[r] = "barrier" /\ apc'[r] = "synced") =>
          TotalVisits' = TotalCalls']_vars

\* A barrier has returned after two calls; a rank that called nothing has
\* applied the visitor and a rank that called has applied none.
C15_Witness ==
  /\ \A r \in ARanks : apc[r] = "synced"
  /\ TotalCalls = 2 /\ TotalVisits = 2
  /\ \E d \in ARanks : calls[d] = 0 /\ Len(visits[d]) > 0
  /\ \E r \in ARanks : calls[r] > 0 /\ Len(visits[r]) = 0

\* C16: once the constructor has returned on every rank, no step (an
\* async_sample call, the execution of a sample RPC, a barrier) changes any
\* rank's bucket sequence or avg_weight.
C16_TableReadOnly ==
  [][Constructed =>
       /\ m_local_alias_table' = m_local_alias_table
       /\ m_avg_weight' = m_avg_weight]_vars

\* A rank has applied the visitor twice for a bucket with 0 < p < avg, once
\* to b and once to a.
C16_Witness ==
  /\ Constructed
  /\ \E d \in ARanks : \E k \in 1..Len(m_local_alias_table[d]) :
       /\ m_local_alias_table[d][k].p > 0
       /\ m_local_alias_table[d][k].p < m_avg_weight[d]
       /\ visits[d] = <<m_local_alias_table[d][k].b, m_local_alias_table[d][k].a>>
       /\ m_local_alias_table[d][k].a # m_local_alias_table[d][k].b

\* C17: in the recursion test (std::greater, 0 inserted, the work function
\* inserting i + cutoff + 1 and i + 1 for i < cutoff) the k-th item a rank
\* processes is k - 1, so the items are processed in strictly ascending order,
\* each once, none below the cutoff after one at or above it; when the barrier
\* has returned every rank has processed exactly 0 .. 2 * cutoff.
C17_PriorityRecursion ==
  \A r \in Ranks :
    /\ \A k \in 1..Len(procLog[r]) : procLog[r][k].item.v = k - 1
    /\ \A k \in 1..Len(procLog[r]) : \A j \in 1..Len(procLog[r]) :
         (j < k /\ procLog[r][j].item.v >= Cutoff) => procLog[r][k].item.v >= Cutoff
    /\ Len(procLog[r]) <= 2 * Cutoff + 1
    /\ (Outside /\ settled[r] > 0) => Len(procLog[r]) = 2 * Cutoff + 1

\* The barrier has returned and the last item every rank processed is
\* 2 * cutoff.
C17_Witness ==
  /\ Outside
  /\ \A r \in Ranks :
       /\ settled[r] > 0
       /\ Len(procLog[r]) = 2 * Cutoff + 1
       /\ procLog[r][Len(procLog[r])].item.v = 2 * Cutoff

\* Rank r enters a barrier in this step (from user code, clear() or the
\* destructor); rank r returns from one.
BarrierStarts(r) == pc[r] = "user" /\ pc'[r] = "barrier"

BarrierEnds(r) == pc[r] = "barrier" /\ pc'[r] \in {"user", "check"}

\* C18 as stated: when a rank enters a barrier and when it returns from one,
\* each of its queues is empty with callback_registered false.
C18_EmptyAtStartAndEnd ==
  [][\A r \in Ranks :
       (BarrierStarts(r) \/ BarrierEnds(r)) =>
         \A q \in WQ : empty(wq'[r][q].m_local_queue) /\ ~wq'[r][q].m_callback_registered]_vars

\* C18, amended: when a rank returns from a barrier each of its queues is
\* empty with callback_registered false; when it enters one, a queue that
\* holds items has callback_registered true and its callback pending.
C18_EmptyAtEnd ==
  [][\A r \in Ranks : \A q \in WQ :
       /\ BarrierEnds(r) =>
            empty(wq'[r][q].m_local_queue) /\ ~wq'[r][q].m_callback_registered
       /\ (BarrierStarts(r) /\ ~empty(wq'[r][q].m_local_queue)) =>
            /\ wq'[r][q].m_callback_registered
            /\ \E i \in 1..Len(cbs'[r]) : cbs'[r][i] = q]_vars

\* Rank 0 has returned from one barrier and has just entered the next with an
\* item queued, the flag set and nothing processed yet.
C18_Witness ==
  /\ pc[0] = "barrier" /\ settled[0] > 0
  /\ mark[0].n > 0 /\ mark[0].at = Len(procLog[0]) /\ mark[0].c = clock[0]
  /\ \E q \in WQ :
       /\ ~empty(wq[0][q].m_local_queue) /\ wq[0][q].m_callback_registered
       /\ Covered(0, q) /\ cur[0].q = 0

\* C19: after a move construction and after a move assignment of queue other
\* into queue q, q holds the work function other held, so the items taken
\* over are processed by it.
C19_MoveTransfersWorkFn ==
  [][\A r \in Ranks : \A q \in WQ : \A other \in WQ \ {q} :
       MoveStep(r, q, other) => wq'[r][q].m_work_lambda = wq[r][other].m_work_lambda]_vars

\* What local_insert(v) on queue q of rank r leaves behind.
InsertPost(r, q, v) ==
  LET old == wq[r][q].m_local_queue
      new == wq'[r][q].m_local_queue
  IN /\ Len(new) = Len(old) + 1
     /\ SubSeq(new, 1, Len(old)) = old
     /\ new[Len(new)].v = v
     /\ wq'[r][q].m_callback_registered
     /\ cbs'[r] = IF wq[r][q].m_callback_registered THEN cbs[r] ELSE Append(cbs[r], q)
     /\ \A r2 \in Ranks : \A q2 \in WQ :
          (r2 # r \/ q2 # q) => wq'[r2][q2] = wq[r2][q2]
     /\ \A r2 \in Ranks : r2 # r => cbs'[r2] = cbs[r2]
     /\ procLog' = procLog /\ pc' = pc /\ cur' = cur
     /\ chan' = chan

\* C20: local_insert, called from user code or from a work function, adds
\* exactly the item to the container, registers a callback exactly when
\* callback_registered was false, leaves callback_registered true, invokes no
\* work function and sends no message.
C20_LocalInsert ==
  [][\A r \in Ranks : \A v \in Vals :
       /\ \A q \in WQ : LocalInsert(r, q, v) => InsertPost(r, q, v)
       /\ WorkInsert(r, v) => InsertPost(r, cur[r].q, v)]_vars

\* Rank 0 has inserted twice into queue 1 from user code: two items, one
\* callback, nothing processed.
C20_Witness ==
  /\ pc[0] = "user" /\ settled[0] = 0 /\ procLog[0] = <<>>
  /\ Len(wq[0][1].m_local_queue) = 2 /\ wq[0][1].m_callback_registered
  /\ cbs[0] = <<1>>

\* The items of queue q of rank r that were inserted up to stamp t.
QueuedUpTo(r, q, t) ==
  Cardinality({i \in 1..Len(wq[r][q].m_local_queue) : wq[r][q].m_local_queue[i].t <= t})

\* C21: while the work function runs on an item, the item is in no container
\* of the rank, and the local_size() the work function saw when it was called
\* is the number of items that were waiting then, the one being processed
\* excluded (all of them still wait: the work function only adds).
C21_PoppedBeforeWork ==
  \A r \in Ranks :
    pc[r] = "work" =>
      LET e == procLog[r][Len(procLog[r])]
      IN /\ e.item = cur[r].item /\ e.q = cur[r].q
         /\ QueueCount(r, e.item.t) = 0
         /\ e.size = QueuedUpTo(r, e.q, e.at)
         /\ local_size(Cur, r, e.q) >= e.size

\* The work function runs on the first of two items: it saw one item waiting
\* and has inserted another.
C21_Witness ==
  /\ pc[0] = "work" /\ Len(procLog[0]) = 1
  /\ procLog[0][1].size = 1 /\ local_size(Cur, 0, 1) = 2

\* C22: while the callback of a queue drains it, callback_registered of the
\* queue is true whenever the work function runs or items wait; a local_insert
\* made by the work function leaves the pending callbacks as they are; and
\* during the drain the flag goes from true to false only in the step that
\* leaves the loop on an empty container.
C22_FlagHeldDuringDrain ==
  [][\A r \in Ranks :
       /\ pc[r] = "work" => wq[r][cur[r].q].m_callback_registered
       /\ (pc[r] = "drain" /\ ~empty(wq[r][cur[r].q].m_local_queue)) =>
            wq[r][cur[r].q].m_callback_registered
       /\ \A v \in Vals :
            WorkInsert(r, v) => cbs' = cbs /\ wq'[r][cur[r].q].m_callback_registered
       /\ (/\ pc[r] \in {"drain", "work"}
           /\ wq[r][cur[r].q].m_callback_registered
           /\ ~wq'[r][cur[r].q].m_callback_registered) =>
            /\ pc[r] = "drain" /\ pc'[r] = "barrier"
            /\ empty(wq[r][cur[r].q].m_local_queue)
            /\ empty(wq'[r][cur[r].q].m_local_queue)]_vars

\* The work function has inserted an item while it ran for the only item of
\* queue 1 of rank 0: the flag is set and no callback is pending.
C22_Witness ==
  /\ pc[0] = "work" /\ cur[0].q = 1 /\ cbs[0] = <<>>
  /\ wq[0][1].m_callback_registered
  /\ Len(procLog[0]) = 1
  /\ Len(wq[0][1].m_local_queue) = 1 /\ wq[0][1].m_local_queue[1].org = "work"

\* Number of pre-barrier callbacks pending on rank r that capture queue q.
PendingFor(r, q) == Cardinality({i \in 1..Len(cbs[r]) : cbs[r][i] = q})

\* C23: at every point at most one pre-barrier callback is pending in the
\* communicator for a given work queue object.
C23_OnePendingCallback ==
  \A r \in Ranks : \A q \in WQ : PendingFor(r, q) <= 1

\* Work invocations of rank r since it entered its present barrier, through
\* queue q, on items that were inserted before the barrier was entered.
DrainedSinceMark(r, q) ==
  Cardinality({k \in 1..Len(procLog[r]) :
                 /\ k > mark[r].at
                 /\ procLog[r][k].q = q
                 /\ procLog[r][k].item.t <= mark[r].c})

\* C24: the destructor's check is evaluated after its barrier has returned:
\* while the barrier runs the object is still there, and at the check the
\* items that were queued when the destructor was entered have all been
\* passed to the work function by that barrier, so the queue is empty.
C24_DtorBarrierFirst ==
  \A r \in Ranks :
    /\ (dtor[r].q # 0 /\ pc[r] # "aborted") => wq[r][dtor[r].q].alive
    /\ pc[r] = "check" =>
         /\ dtor[r].q # 0
         /\ settled[r] = clock[r]
         /\ DrainedSinceMark(r, dtor[r].q) = dtor[r].n
         /\ local_size(Cur, r, dtor[r].q) = 0

\* A queue destroyed with one item in it: at the check the item has been
\* processed.
C24_Witness ==
  /\ pc[0] = "check" /\ dtor[0].n = 1
  /\ Len(procLog[0]) = 1 /\ procLog[0][1].q = dtor[0].q

\* C25: the callback's local_process_all returns only on an empty container;
\* an item the work function inserted is queued only while that same call is
\* still running; and, the work function inserting finitely many items, a
\* drain that has started returns.
C25_DrainTerminates ==
  /\ [][\A r \in Ranks :
          (pc[r] \in {"drain", "work"} /\ pc'[r] = "barrier") =>
            /\ pc[r] = "drain"
            /\ empty(wq[r][cur[r].q].m_local_queue)
            /\ empty(wq'[r][cur[r].q].m_local_queue)]_vars
  /\ [](\A r \in Ranks : \A q \in WQ : \A x \in Range(wq[r][q].m_local_queue) :
          x.org = "work" => pc[r] \in {"drain", "work"} /\ cur[r].q = q)
  /\ \A r \in Ranks : (pc[r] \in {"drain", "work"}) ~> (pc[r] = "barrier")

\* A drain has returned after processing an item the work function had
\* inserted during it.
C25_Witness ==
  /\ pc[0] = "barrier" /\ cur[0].q = 0
  /\ empty(wq[0][1].m_local_queue) /\ ~wq[0][1].m_callback_registered
  /\ Len(procLog[0]) = 3
  /\ procLog[0][2].item.org = "work" /\ procLog[0][3].item.org = "work"
  /\ mark[0].at = 0

\* ------------------------------------------------------------- balancer, step by step
\* P_r of the input, in units of 1/nranks: the input weight of ranks 0..r
\* (0 for r = -1).
InputUpTo(r) == NumRanks * SumOver([s \in ARanks |-> Weight(input[s])], 0, r)

\* The ranks whose balance_weight has computed the locals of its loop and has
\* not returned.
Started(r) == apc[r] \in {"coll", "made", "loop", "sent", "swap", "balanced", "aborted"}

\* C26 as stated: the value prefix_sum returns on rank r is the inclusive
\* prefix P_r, and the loop of balance_weight starts with destination rank
\* floor(P_{r-1} / T) and fill level P_{r-1} mod T.
C26_StartFromInclusiveScan ==
  \A r \in ARanks :
    Started(r) =>
      /\ prefix_sum([s \in ARanks |-> Weight(InUnits(input[s]))], r) = InputUpTo(r)
      /\ bal[r].dest_rank = InputUpTo(r - 1) \div GlobalInput
      /\ bal[r].curr_weight = InputUpTo(r - 1) % GlobalInput

\* C26, amended: the value the code divides by T is the weight of the ranks
\* below r (P_{r-1}, 0 on rank 0), and the loop of balance_weight on rank r
\* starts with destination rank floor(P_{r-1} / T), fill level P_{r-1} mod T
\* and T = G / nranks.
C26_StartFromRanksBelow ==
  \A r \in ARanks :
    Started(r) =>
      \A T \in {GlobalInput} : \A P \in {InputUpTo(r - 1)} :
        /\ bal[r].target_weight = T
        /\ bal[r].dest_rank * T + bal[r].curr_weight = P
        /\ bal[r].curr_weight >= 0 /\ bal[r].curr_weight < T
        /\ bal[r].dest_rank = P \div T
        /\ bal[r].curr_weight = P % T

\* The ranks below rank 1 weigh more than T and not a multiple of it: rank 1
\* starts at a destination past rank 0, in a bin that is partly filled.
C26_Witness ==
  /\ apc[1] = "loop"
  /\ Weight(input[0]) > 0 /\ Weight(input[1]) > 0
  /\ bal[1].dest_rank >= 1 /\ bal[1].curr_weight > 0

\* The locals of balance_weight on rank r when its loop has ended: the list
\* walked, dest_rank, items_to_send (in batch) and the async calls made.
LoopEnd(r) ==
  balance_loop([its |-> InUnits(input[r]), i |-> 1, curr |-> bal[r].curr_weight,
                dest |-> bal[r].dest_rank, batch |-> <<>>, out |-> <<>>],
               bal[r].target_weight)

\* C27: in the balancer dest_rank never exceeds nranks - 1, the batch left
\* over when the loop ends is delivered to a rank in 0..nranks-1 (to rank
\* nranks - 1 when dest_rank would lie beyond it), and so every input id,
\* zero-weight items included, is found in some rank's list after the swap.
C27_EveryFragmentDelivered ==
  /\ \A r \in ARanks :
       Started(r) =>
         /\ bal[r].dest_rank <= NumRanks - 1
         /\ LoopEnd(r).dest <= NumRanks - 1
         /\ Len(LoopEnd(r).batch) > 0 =>
              \E k \in 1..Len(balance_sends(InUnits(input[r]), bal[r]).out) :
                LET m == balance_sends(InUnits(input[r]), bal[r]).out[k]
                IN m.dest \in ARanks /\ m.items = LoopEnd(r).batch
  /\ AllSwapped =>
       \A s \in ARanks : IdsOf(input[s]) \subseteq UNION {IdsOf(post[r]) : r \in ARanks}

\* The weight of id x in the fragments of a list of async calls, and their number.
SentOf(out, x) ==
  SumOver([k \in 1..Len(out) |-> WeightOf(out[k].items, x)], 1, Len(out))

FragmentsOf(out, x) ==
  SumOver([k \in 1..Len(out) |->
             Cardinality({j \in 1..Len(out[k].items) : out[k].items[j].id = x})],
          1, Len(out))

\* The positions of rank r's input that hold the only item of their id on r.
OnlyOfItsId(r) ==
  {i \in 1..Len(input[r]) : \A j \in 1..Len(input[r]) : input[r][j].id = input[r][i].id => j = i}

\* C28: every fragment the balancer sends weighs at most T (and at least 0),
\* in the async calls of a rank's loop as in the RPCs in flight and in the
\* collectors; for every id the fragments a rank sends weigh what its items
\* of that id weigh; an item heavier than T is sent as ceil(w / T) or more
\* fragments of its id, also when what remains after the first split is T or
\* more and is appended to m_local_items to be split again.
C28_FragmentsAtMostT ==
  \A r \in ARanks :
    /\ (apc[r] = "loop" /\ bal[r].target_weight > 0) =>
         \A res \in {balance_sends(m_local_items[r], bal[r])} :
           /\ \A k \in 1..Len(res.out) : \A j \in 1..Len(res.out[k].items) :
                /\ res.out[k].items[j].weight >= 0
                /\ res.out[k].items[j].weight <= bal[r].target_weight
           /\ \A x \in Ids : SentOf(res.out, x) = NumRanks * WeightOf(input[r], x)
           /\ \A i \in OnlyOfItsId(r) :
                FragmentsOf(res.out, input[r][i].id) * bal[r].target_weight
                  >= NumRanks * input[r][i].weight
           /\ Len(res.its) >= Len(input[r])
           /\ \A i \in Len(input[r]) + 1 .. Len(res.its) :
                res.its[i].weight >= bal[r].target_weight
    /\ \A i \in 1..Len(new_local_items[r]) :
         /\ new_local_items[r][i].weight >= 0
         /\ new_local_items[r][i].weight <= bal[r].target_weight
    /\ \A s \in ARanks : \A k \in 1..Len(achan[s][r]) :
         achan[s][r][k].kind = "items" =>
           \A j \in 1..Len(achan[s][r][k].items) :
             /\ achan[s][r][k].items[j].weight >= 0
             /\ achan[s][r][k].items[j].weight <= bal[r].target_weight

\* One item holds more than two thirds of the weight: its remainder after the
\* first split was appended to the list, it was sent as three fragments or
\* more, and after the deliveries every rank's collector holds one of them.
C28_Witness ==
  \E r \in ARanks :
    /\ apc[r] = "swap"
    /\ Len(m_local_items[r]) > Len(input[r])
    /\ \E i \in OnlyOfItsId(r) :
         /\ NumRanks * input[r][i].weight > 2 * bal[r].target_weight
         /\ FragmentsOf(balance_sends(InUnits(input[r]), bal[r]).out, input[r][i].id) >= 3
         /\ \A d \in ARanks : WeightOf(new_local_items[d], input[r][i].id) > 0

\* ------------------------------------------------------------- delivery of the fragments
\* The append RPCs from rank s to rank d that have not been executed.
ItemsInFlight(s, d) == SelectSeq(achan[s][d], LAMBDA msg : msg.kind = "items")

\* Rank d's new_local_items is declared and not yet swapped into m_local_items.
CollectorExists(d) == apc[d] \in {"made", "loop", "sent", "swap"}

\* The number of items in a list of RPCs.
CountIn(msgs) == SumOver([k \in 1..Len(msgs) |-> Len(msgs[k].items)], 1, Len(msgs))

\* C29: an append RPC is in flight to rank d only while d's collector exists
\* and d has not left the barrier before the swap, so none arrives after the
\* swap and none before the collector exists; and when d swaps, its collector
\* holds, in number and in weight per id, the items of all the RPCs sent to
\* d, whatever the order of deliveries: none is lost.
C29_AppendsBeforeSwap ==
  /\ \A d \in ARanks :
       /\ (\E s \in ARanks : ItemsInFlight(s, d) # <<>>) => apc[d] \in {"made", "loop", "sent"}
       /\ Len(new_local_items[d]) > 0 => CollectorExists(d)
  /\ (\E d \in ARanks : apc[d] = "swap") =>
       \A outs \in {[s \in ARanks |-> balance_sends(InUnits(input[s]), bal[s]).out]} :
         \A d \in ARanks :
           \A got \in {IF Swapped(d) THEN post[d] ELSE new_local_items[d]} :
             /\ Len(got) = sum([s \in ARanks |-> CountIn(SendsTo(outs[s], d))])
             /\ \A x \in Ids \cup {DefaultItem} :
                  WeightOf(got, x) = sum([s \in ARanks |-> SentOf(SendsTo(outs[s], d), x)])

\* Ranks 0 and 1 each gave one item, of different ids; the barrier has
\* returned and rank d is about to swap a collector in which the fragment
\* from rank 1 was appended before the one from rank 0.
C29_Witness ==
  /\ \A r \in ARanks : apc[r] = "swap"
  /\ Len(input[0]) = 1 /\ Len(input[1]) = 1 /\ input[0][1].id # input[1][1].id
  /\ \E d \in ARanks :
       /\ Len(new_local_items[d]) = 2
       /\ new_local_items[d][1].id = input[1][1].id
       /\ new_local_items[d][2].id = input[0][1].id

\* ------------------------------------------------------------- mass of the buckets
\* For id x on rank r: the sum of p over the buckets whose a is x plus the sum
\* of avg - p over the buckets whose b is x and whose p is below avg.
AliasMass(r, x) ==
  SumOver([i \in 1..Len(m_local_alias_table[r]) |->
             (IF m_local_alias_table[r][i].a = x THEN m_local_alias_table[r][i].p ELSE 0)
             + (IF m_local_alias_table[r][i].b = x /\ m_local_alias_table[r][i].p < m_avg_weight[r]
                  THEN m_avg_weight[r] - m_local_alias_table[r][i].p ELSE 0)],
          1, Len(m_local_alias_table[r]))

\* The mass of all the buckets of rank r: p, and avg - p where p is below avg.
TotalMass(r) ==
  SumOver([i \in 1..Len(m_local_alias_table[r]) |->
             m_local_alias_table[r][i].p
             + (IF m_local_alias_table[r][i].p < m_avg_weight[r]
                  THEN m_avg_weight[r] - m_local_alias_table[r][i].p ELSE 0)],
          1, Len(m_local_alias_table[r]))

\* C30: on every rank, once the table is built, for every id x the mass of x
\* in the buckets is the post-balance weight of x on that rank (both in the
\* table's units, weight times the number n of items), and the mass of all
\* buckets is the weight of the rank's post-balance list.
C30_BucketMass ==
  \A r \in ARanks :
    apc[r] = "ready" =>
      /\ \A x \in Ids \cup {DefaultItem} :
           AliasMass(r, x) = Len(post[r]) * WeightOf(post[r], x)
      /\ TotalMass(r) = Len(post[r]) * Weight(post[r])

\* A rank holds fragments of two ids; id x is the a of one bucket and the b
\* of another whose p is below avg, so both sums of the claim count for it.
C30_Witness ==
  \E r \in ARanks : \E x \in Ids :
    /\ apc[r] = "ready"
    /\ IdsOf(post[r]) = Ids
    /\ \E i \in 1..Len(m_local_alias_table[r]), j \in 1..Len(m_local_alias_table[r]) :
         /\ i # j
         /\ m_local_alias_table[r][i].a = x /\ m_local_alias_table[r][i].p > 0
         /\ m_local_alias_table[r][i].p < m_avg_weight[r]
         /\ m_local_alias_table[r][j].b = x
         /\ m_local_alias_table[r][j].p < m_avg_weight[r]

\* ------------------------------------------------------------- drain phase and sentinel
\* The number of buckets the pairing loop of build_local_alias_table emits for
\* a list of items; the buckets after them come from the two flushing loops.
paired_buckets(its) ==
  LET n == Len(its)
      avg_weight == Weight(its)
      scaled == [i \in 1..n |-> [id |-> its[i].id, weight |-> n * its[i].weight]]
  IN Len(vose_pair(SelectSeq(scaled, LAMBDA itm : itm.weight < avg_weight),
                   SelectSeq(scaled, LAMBDA itm : ~(itm.weight < avg_weight)),
                   <<>>, avg_weight).tbl)

\* The ids given to the constructors, over all ranks.
InputIds == UNION {IdsOf(input[s]) : s \in ARanks}

\* C31: on every rank whose constructor has returned, every bucket of the
\* flushing loops has p = avg_weight and b = Item(), every other bucket has
\* p < avg_weight and an input id as b; for a bucket with p = avg_weight the
\* sampler yields a whatever the coin shows; and every id a visitor was
\* applied to is an input id, never Item().
C31_SentinelNeverSampled ==
  \A r \in ARanks :
    /\ apc[r] \in {"ready", "barrier", "synced"} =>
         \A np \in {paired_buckets(post[r])} :
           \A i \in 1..Len(m_local_alias_table[r]) :
             \A tbl_itm \in {m_local_alias_table[r][i]} :
               /\ i > np => tbl_itm.p = m_avg_weight[r] /\ tbl_itm.b = DefaultItem
               /\ i <= np => tbl_itm.p < m_avg_weight[r] /\ tbl_itm.b \in InputIds
               /\ tbl_itm.a \in InputIds
               /\ tbl_itm.p = m_avg_weight[r] =>
                    \A f_above_p \in BOOLEAN :
                      selected(tbl_itm, m_avg_weight[r], f_above_p) = tbl_itm.a
    /\ \A i \in 1..Len(visits[r]) :
         visits[r][i] # DefaultItem /\ visits[r][i] \in InputIds

\* A rank whose table has a paired bucket followed by a flushed one has
\* applied the visitor twice, to the a of the flushed bucket.
C31_Witness ==
  \E d \in ARanks :
    /\ apc[d] \in {"ready", "barrier", "synced"}
    /\ Len(m_local_alias_table[d]) = 2
    /\ m_local_alias_table[d][1].p < m_avg_weight[d]
    /\ m_local_alias_table[d][2].p = m_avg_weight[d]
    /\ m_local_alias_table[d][2].b = DefaultItem
    /\ visits[d] = <<m_local_alias_table[d][2].a, m_local_alias_table[d][2].a>>
    /\ m_local_alias_table[d][2].a # m_local_alias_table[d][1].a

\* The ranks whose constructor has returned and whose buckets all have
\* p = m_avg_weight.
AllAtAvg(d) ==
  /\ apc[d] \in {"ready", "barrier", "synced"}
  /\ \A k \in 1..Len(m_local_alias_table[d]) : m_local_alias_table[d][k].p = m_avg_weight[d]

\* C32 as stated: for a bucket with p = avg_weight, when the coin shows
\* f = p (so f is not above p) the sampler yields b.
C32_SelectsBAtAvg ==
  \A d \in ARanks :
    apc[d] \in {"ready", "barrier", "synced"} =>
      \A k \in 1..Len(m_local_alias_table[d]) :
        m_local_alias_table[d][k].p = m_avg_weight[d] =>
          selected(m_local_alias_table[d][k], m_avg_weight[d], FALSE) = m_local_alias_table[d][k].b

\* C32, amended: for a bucket with p = avg_weight the sampler draws no f and
\* yields a, which differs from b; on a rank whose buckets all have
\* p = avg_weight every id a visitor was applied to is the a of a bucket.
C32_SelectsAAtAvg ==
  \A d \in ARanks :
    /\ apc[d] \in {"ready", "barrier", "synced"} =>
         \A k \in 1..Len(m_local_alias_table[d]) :
           m_local_alias_table[d][k].p = m_avg_weight[d] =>
             /\ selected(m_local_alias_table[d][k], m_avg_weight[d], FALSE)
                  = m_local_alias_table[d][k].a
             /\ selected(m_local_alias_table[d][k], m_avg_weight[d], TRUE)
                  = m_local_alias_table[d][k].a
             /\ m_local_alias_table[d][k].a # m_local_alias_table[d][k].b
    /\ AllAtAvg(d) =>
         \A i \in 1..Len(visits[d]) :
           \E k \in 1..Len(m_local_alias_table[d]) : visits[d][i] = m_local_alias_table[d][k].a

\* A rank with two buckets of different ids, both with p = avg_weight, has
\* applied the visitor to both ids.
C32_Witness ==
  \E d \in ARanks :
    /\ AllAtAvg(d) /\ Len(m_local_alias_table[d]) = 2
    /\ m_local_alias_table[d][1].a # m_local_alias_table[d][2].a
    /\ visits[d] = <<m_local_alias_table[d][1].a, m_local_alias_table[d][2].a>>

\* ------------------------------------------------------------- zero total weight
\* C33: when the global weight is 0 (no items at all, or items of weight 0
\* only) the constructor returns on no rank: every rank whose construction
\* has ended has failed an assertion of balance_weight.
C33_ZeroWeightFatal ==
  GlobalInput = 0 =>
    \A r \in ARanks : apc[r] \notin {"build", "built", "fin", "ready"}

\* ------------------------------------------------------------- pending callbacks
\* The callback of queue q is running on rank r: local_process_all has been
\* entered and the lambda has not returned.
Draining(r, q) == pc[r] \in {"drain", "work"} /\ cur[r].q = q

\* C34: a live work queue that holds items, and whose callback is not
\* running, has a pre-barrier callback capturing it pending in the
\* communicator, whatever local_insert, local_clear, moves and barriers
\* came before.
C34_NonEmptyHasCallback ==
  \A r \in Ranks : \A q \in WQ :
    (wq[r][q].alive /\ ~empty(wq[r][q].m_local_queue) /\ ~Draining(r, q))
      => PendingFor(r, q) >= 1

\* Queue 2 took its items from queue 1 by a move while queue 1's callback was
\* pending and its flag set; queue 1 is empty with its flag reset, and queue
\* 2 has registered a callback of its own.
C34_Witness ==
  \E r \in Ranks :
    /\ pc[r] = "user"
    /\ wq[r][1].alive /\ empty(wq[r][1].m_local_queue) /\ ~wq[r][1].m_callback_registered
    /\ wq[r][2].alive /\ ~empty(wq[r][2].m_local_queue) /\ wq[r][2].m_callback_registered
    /\ cbs[r] = <<1, 2>>
    /\ \E i \in 1..Len(wq[r][2].m_local_queue) : wq[r][2].m_local_queue[i].into = 1

\* ------------------------------------------------------------- move assignment onto a queue with items
\* The items queued anywhere on rank r, and those its work functions were
\* invoked with.
QueuedItems(r) == UNION {Range(wq[r][q].m_local_queue) : q \in WQ}

ProcessedItems(r) == {procLog[r][i].item : i \in 1..Len(procLog[r])}

C36_NoCallbackOutlivesQueue ==
  \A r \in Ranks :
    /\ pc[r] # "dangling"
    /\ \A q \in WQ : wq[r][q].gone => PendingFor(r, q) = 0

\* An item was inserted into queue 1, which registered a callback for queue 1,
\* and moved into queue 2 before any barrier; queue 1 was then destroyed, and
\* the barrier of its destructor ran the callbacks and processed the item
\* through queue 2.
C36_Witness ==
  \E r \in Ranks :
    /\ pc[r] = "user" /\ wq[r][1].gone /\ cbs[r] = <<>>
    /\ Len(procLog[r]) = 1 /\ mark[r].at = 0
    /\ procLog[r][1].item.into = 1 /\ procLog[r][1].q = 2

\* ------------------------------------------------------------- the loop over a growing list
\* C37: with T > 0 the loop of balance_weight ends, leaving m_local_items the
\* list it started from followed by finitely many appended remainders: each
\* remainder weighs at least T, carries the id of an earlier fragment of the
\* list and is lighter than it, by T at most; and there are no more
\* remainders than the weight the rank started with holds multiples of T.
C37_LoopTerminates ==
  \A r \in ARanks :
    (apc[r] = "sent" /\ bal[r].target_weight > 0) =>
      LET T == bal[r].target_weight
          started == InUnits(input[r])
          ended == m_local_items[r]
      IN /\ Len(ended) >= Len(started)
         /\ SubSeq(ended, 1, Len(started)) = started
         /\ \A k \in (Len(started) + 1)..Len(ended) :
              /\ ended[k].weight >= T
              /\ \E j \in 1..(k - 1) :
                   /\ ended[j].id = ended[k].id
                   /\ ended[k].weight < ended[j].weight
                   /\ ended[j].weight - ended[k].weight <= T
         /\ (Len(ended) - Len(started)) * T <= bal[r].curr_weight + Weight(started)

\* A rank whose single item spans three ranks has ended its loop with two
\* remainders appended to the list.
C37_Witness ==
  \E r \in ARanks :
    /\ apc[r] = "sent" /\ bal[r].target_weight > 0
    /\ Len(input[r]) = 1
    /\ Len(m_local_items[r]) = 3

====
